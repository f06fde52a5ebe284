------------------------- MODULE PlanningLoopProofs -------------------------
(***************************************************************************)
(* Theorems about PlanningLoop, for every graph, policy and request: what  *)
(* the expansion of the graph finds, what is recalled, and what clusters   *)
(* and scenarios are made of it.                                           *)
(***************************************************************************)
EXTENDS PlanningLoop, FiniteSetTheorems, SequenceTheorems, WellFoundedInduction, TLAPS

-----------------------------------------------------------------------------
(* Numbers and sequences *)

(* A set of naturals has a least element: what induction is done by here.  *)
LEMMA Least ==
  ASSUME NEW S \in SUBSET Nat, S # {}
  PROVE  \E x \in S : \A y \in S : x <= y
<1>1. PICK x \in S : \A y \in S : ~ (<<y, x>> \in OpToRel(<, Nat))
  BY NatLessThanWellFounded, WFMin
<1>2. \A y \in S : ~(y < x)
  BY <1>1 DEF OpToRel
<1> QED BY <1>2

(* A finite set of integers has a greatest. *)
LEMMA Greatest ==
  ASSUME NEW S \in SUBSET Int, IsFiniteSet(S), S # {}
  PROVE  Max(S) \in S /\ \A y \in S : Max(S) >= y
<1> DEFINE HasGreatest(T) == \E x \in T : \A y \in T : x >= y
           Bad == {n \in Nat : \E T \in SUBSET S :
                                 /\ T # {} /\ Cardinality(T) = n
                                 /\ ~HasGreatest(T)}
<1>1. ASSUME NEW T \in SUBSET S
      PROVE  IsFiniteSet(T) /\ Cardinality(T) \in Nat
  BY FS_Subset, FS_CardinalityType
<1>2. Bad = {}
  <2> SUFFICES ASSUME Bad # {} PROVE FALSE
    OBVIOUS
  <2>1. PICK n \in Bad : \A k \in Bad : n <= k
    <3>1. Bad \in SUBSET Nat
      OBVIOUS
    <3> HIDE DEF Bad
    <3> QED BY <3>1, Least
  <2>2. PICK T \in SUBSET S : T # {} /\ Cardinality(T) = n /\ ~HasGreatest(T)
    BY <2>1
  <2>3. PICK x \in T : TRUE
    BY <2>2
  <2>4. /\ Cardinality(T \ {x}) = n - 1
        /\ T \ {x} \in SUBSET S
    BY <1>1, <2>2, <2>3, FS_RemoveElement
  <2>5. n - 1 \in Nat
    BY <1>1, <2>4
  <2>6. CASE T \ {x} = {}
    <3>1. T = {x}
      BY <2>3, <2>6
    <3> QED BY <2>2, <3>1
  <2>7. CASE T \ {x} # {}
    <3>1. HasGreatest(T \ {x})
      <4>1. n - 1 \notin Bad
        BY <2>1, <2>5
      <4> QED BY <2>4, <2>5, <2>7, <4>1
    <3>2. PICK m \in T \ {x} : \A y \in T \ {x} : m >= y
      BY <3>1
    <3>3. m >= x \/ (x >= m /\ \A y \in T : x >= y)
      BY <2>2, <3>2
    <3> QED BY <2>2, <2>3, <3>2, <3>3
  <2> QED BY <2>6, <2>7
<1>3. HasGreatest(S)
  <2>1. Cardinality(S) \in Nat
    BY <1>1
  <2> QED BY <1>2, <2>1
<1> QED BY <1>3 DEF Max

LEMMA NodesFinite ==
  ASSUME NEW S \in SUBSET Node
  PROVE  IsFiniteSet(S) /\ Cardinality(S) \in Nat
BY NodeAssumption, FS_Subset, FS_CardinalityType

(* An order of a finite set lists each of its elements once. *)
LEMMA Ordered ==
  ASSUME NEW S, IsFiniteSet(S), NEW order \in SetToSeqs(S)
  PROVE  /\ order \in Seq(S)
         /\ Len(order) \in Nat /\ DOMAIN order = 1..Len(order)
         /\ \A i, j \in 1..Len(order) : order[i] = order[j] => i = j
         /\ \A i \in 1..Len(order) : order[i] \in S
         /\ \A x \in S : \E i \in 1..Len(order) : order[i] = x
<1>1. Cardinality(S) \in Nat
  BY FS_CardinalityType
<1>2. /\ order \in [1..Cardinality(S) -> S]
      /\ \A i, j \in 1..Cardinality(S) : i # j => order[i] # order[j]
  BY DEF SetToSeqs
<1>3. order \in Injection(1..Cardinality(S), S)
  BY <1>2 DEF Injection, IsInjective
<1>4. Cardinality(1..Cardinality(S)) = Cardinality(S)
  BY <1>1, FS_Interval
<1>5. order \in Surjection(1..Cardinality(S), S)
  BY <1>3, <1>4, FS_Injection
<1>6. \A x \in S : \E i \in 1..Cardinality(S) : order[i] = x
  BY <1>5 DEF Surjection
<1>7. order \in Seq(S) /\ Len(order) = Cardinality(S)
  BY <1>1, <1>2
<1> QED BY <1>1, <1>2, <1>6, <1>7

(* The k best of a set are of the set, and no other exceeds one of them. *)
LEMMA TopTaken ==
  ASSUME NEW S, NEW k, NEW score, NEW T \in Top(S, k, score)
  PROVE  T \subseteq S /\ \A t \in T, s \in S \ T : score[t] >= score[s]
BY DEF Top

-----------------------------------------------------------------------------
(* The nodes in reach *)

(* R[k] is what k steps over links lead to from base. *)
Reaches(R, base, links) ==
  /\ R \in [Nat -> SUBSET Node]
  /\ R[0] = base
  /\ \A k \in Nat : R[k + 1] = R[k] \union UNION {links[n] : n \in R[k]}

(* The recursive definition has a solution: the ends of the walks of k     *)
(* steps, each of which stays where it is or follows a link.               *)
LEMMA ReachExists ==
  ASSUME NEW base \in SUBSET Node, NEW links \in [Node -> SUBSET Node]
  PROVE  \E R : Reaches(R, base, links)
<1> DEFINE Walks(k) == {p \in [0..k -> Node] :
                          /\ p[0] \in base
                          /\ \A i \in 0..(k - 1) : p[i + 1] = p[i] \/ p[i + 1] \in links[p[i]]}
           R == [k \in Nat |-> {n \in Node : \E p \in Walks(k) : p[k] = n}]
<1>1. R[0] = base
  <2>1. ASSUME NEW n \in base
        PROVE  n \in R[0]
    <3>1. [i \in 0..0 |-> n] \in Walks(0)
      OBVIOUS
    <3> QED BY <3>1
  <2>2. ASSUME NEW n \in R[0]
        PROVE  n \in base
    OBVIOUS
  <2> QED BY <2>1, <2>2
<1>2. ASSUME NEW k \in Nat
      PROVE  R[k + 1] = R[k] \union UNION {links[n] : n \in R[k]}
  <2>1. ASSUME NEW n \in R[k + 1]
        PROVE  n \in R[k] \union UNION {links[m] : m \in R[k]}
    <3>1. PICK p \in Walks(k + 1) : p[k + 1] = n
      OBVIOUS
    <3> DEFINE q == [i \in 0..k |-> p[i]]
    <3>2. q \in Walks(k)
      <4>1. q \in [0..k -> Node] /\ q[0] \in base
        BY <3>1
      <4>2. ASSUME NEW i \in 0..(k - 1)
            PROVE  q[i + 1] = q[i] \/ q[i + 1] \in links[q[i]]
        <5>1. i \in 0..((k + 1) - 1) /\ q[i] = p[i] /\ q[i + 1] = p[i + 1]
          OBVIOUS
        <5> QED BY <3>1, <5>1
      <4> QED BY <4>1, <4>2
    <3>3. p[k] \in R[k]
      <4>1. q[k] = p[k] /\ p[k] \in Node
        BY <3>1
      <4>2. q[k] \in R[k]
        <5> HIDE DEF q, Walks
        <5> QED BY <3>2, <4>1
      <4> QED BY <4>1, <4>2, Zenon
    <3>4. p[k + 1] = p[k] \/ p[k + 1] \in links[p[k]]
      BY <3>1
    <3> QED BY <3>1, <3>3, <3>4
  <2>2. ASSUME NEW n \in R[k], NEW m \in Node, m = n \/ m \in links[n]
        PROVE  m \in R[k + 1]
    <3>1. PICK p \in Walks(k) : p[k] = n
      OBVIOUS
    <3> DEFINE q == [i \in 0..(k + 1) |-> IF i = k + 1 THEN m ELSE p[i]]
    <3>2. q \in Walks(k + 1)
      <4>1. q \in [0..(k + 1) -> Node] /\ q[0] \in base
        BY <3>1
      <4>2. ASSUME NEW i \in 0..k
            PROVE  q[i + 1] = q[i] \/ q[i + 1] \in links[q[i]]
        <5>1. CASE i = k
          BY <2>2, <3>1, <5>1
        <5>2. CASE i # k
          BY <3>1, <5>2
        <5> QED BY <5>1, <5>2
      <4>3. (k + 1) - 1 = k
        OBVIOUS
      <4>4. \A i \in 0..((k + 1) - 1) : q[i + 1] = q[i] \/ q[i + 1] \in links[q[i]]
        BY <4>2, <4>3
      <4> HIDE DEF q
      <4> QED BY <4>1, <4>4
    <3>3. q[k + 1] = m
      OBVIOUS
    <3> HIDE DEF q, Walks
    <3>4. R[k + 1] = {x \in Node : \E w \in Walks(k + 1) : w[k + 1] = x}
      OBVIOUS
    <3> HIDE DEF R
    <3> QED BY <3>2, <3>3, <3>4
  <2>3. \A n \in R[k] : n \in Node /\ links[n] \subseteq Node
    OBVIOUS
  <2> HIDE DEF R
  <2> QED BY <2>1, <2>2, <2>3
<1>3. R \in [Nat -> SUBSET Node]
  OBVIOUS
<1> HIDE DEF R
<1> QED BY <1>1, <1>2, <1>3 DEF Reaches

(* The links of the request, as a function. *)
Links == [n \in Node |-> Neighbors(n) \intersect Node]

(* Within is the reach of the seeds. *)
LEMMA WithinSolves ==
  ASSUME request.nodes \subseteq Node, Seeds \subseteq Node
  PROVE  Reaches(Within, Seeds, Links)
<1>1. PICK R : Reaches(R, Seeds, Links)
  BY ReachExists DEF Links
<1>2. R = [k \in Nat |-> IF k = 0 THEN Seeds
                         ELSE R[k - 1] \union UNION {Neighbors(n) : n \in R[k - 1]}]
  <2>1. R \in [Nat -> SUBSET Node]
    BY <1>1 DEF Reaches
  <2>2. ASSUME NEW k \in Nat
        PROVE  R[k] = IF k = 0 THEN Seeds
                      ELSE R[k - 1] \union UNION {Neighbors(n) : n \in R[k - 1]}
    <3>1. CASE k = 0
      BY <1>1, <3>1 DEF Reaches
    <3>2. CASE k # 0
      <4>1. k - 1 \in Nat /\ (k - 1) + 1 = k
        BY <3>2
      <4>2. R[k] = R[k - 1] \union UNION {Links[n] : n \in R[k - 1]}
        BY <1>1, <4>1 DEF Reaches
      <4>3. \A n \in R[k - 1] : Links[n] = Neighbors(n)
        BY <2>1, <4>1 DEF Links, Neighbors
      <4> QED BY <3>2, <4>2, <4>3
    <3> QED BY <3>1, <3>2
  <2> QED BY <2>1, <2>2
<1>3. Within = [k \in Nat |-> IF k = 0 THEN Seeds
                 ELSE Within[k - 1] \union UNION {Neighbors(n) : n \in Within[k - 1]}]
  BY <1>2 DEF Within
<1>4. /\ Within[0] = Seeds
      /\ \A k \in Nat :
           Within[k + 1] = Within[k] \union UNION {Neighbors(n) : n \in Within[k]}
  <2>1. 0 \in Nat /\ \A k \in Nat : k + 1 \in Nat /\ k + 1 # 0 /\ (k + 1) - 1 = k
    OBVIOUS
  <2> QED BY <1>3, <2>1
<1>5. \A k \in Nat : Within[k] \subseteq Node
  <2> DEFINE Bad == {k \in Nat : ~(Within[k] \subseteq Node)}
  <2> SUFFICES ASSUME Bad # {} PROVE FALSE
    OBVIOUS
  <2>1. PICK k \in Bad : \A j \in Bad : k <= j
    <3>1. Bad \in SUBSET Nat
      OBVIOUS
    <3> HIDE DEF Bad
    <3> QED BY <3>1, Least
  <2>2. k # 0
    BY <1>4
  <2>3. k - 1 \in Nat /\ (k - 1) + 1 = k
    BY <2>2
  <2>4. Within[k - 1] \subseteq Node
    BY <2>1, <2>3
  <2>5. Within[k] \subseteq Node
    BY <1>4, <2>3, <2>4 DEF Neighbors
  <2> QED BY <2>5
<1>6. \A k \in Nat : \A n \in Within[k] : Links[n] = Neighbors(n)
  BY <1>5 DEF Links, Neighbors
<1>7. Within \in [Nat -> SUBSET Node]
  <2>1. Within = [k \in Nat |-> Within[k]]
    BY <1>3
  <2> QED BY <1>5, <2>1
<1> QED BY <1>4, <1>6, <1>7 DEF Reaches

(* More steps reach no less, and there is one solution only. *)
LEMMA ReachGrows ==
  ASSUME NEW R, NEW base, NEW links, Reaches(R, base, links),
         NEW j \in Nat, NEW k \in Nat, j <= k
  PROVE  R[j] \subseteq R[k]
<1> DEFINE Bad == {i \in Nat : j <= i /\ ~(R[j] \subseteq R[i])}
<1> SUFFICES ASSUME Bad # {} PROVE FALSE
  OBVIOUS
<1>1. PICK i \in Bad : \A x \in Bad : i <= x
  <2>1. Bad \in SUBSET Nat
    OBVIOUS
  <2> HIDE DEF Bad
  <2> QED BY <2>1, Least
<1>2. i # j
  BY <1>1
<1>3. i - 1 \in Nat /\ (i - 1) + 1 = i /\ j <= i - 1
  BY <1>1, <1>2
<1>4. R[j] \subseteq R[i - 1]
  BY <1>1, <1>3
<1>5. R[i - 1] \subseteq R[i]
  BY <1>3 DEF Reaches
<1> QED BY <1>1, <1>4, <1>5

LEMMA ReachUnique ==
  ASSUME NEW R, NEW Q, NEW base, NEW links,
         Reaches(R, base, links), Reaches(Q, base, links)
  PROVE  R = Q
<1> DEFINE Bad == {i \in Nat : R[i] # Q[i]}
<1>1. Bad = {}
  <2> SUFFICES ASSUME Bad # {} PROVE FALSE
    OBVIOUS
  <2>1. PICK i \in Bad : \A x \in Bad : i <= x
    <3>1. Bad \in SUBSET Nat
      OBVIOUS
    <3> HIDE DEF Bad
    <3> QED BY <3>1, Least
  <2>2. i # 0
    BY <2>1 DEF Reaches
  <2>3. i - 1 \in Nat /\ (i - 1) + 1 = i
    BY <2>1, <2>2
  <2>4. R[i - 1] = Q[i - 1]
    BY <2>1, <2>3
  <2>5. R[i] = Q[i]
    BY <2>3, <2>4 DEF Reaches
  <2> QED BY <2>1, <2>5
<1>2. \A i \in Nat : R[i] = Q[i]
  BY <1>1
<1> QED BY <1>2 DEF Reaches

-----------------------------------------------------------------------------
(* What the calls of a recall compute *)

LEMMA RequestTyped ==
  ASSUME request \in Request
  PROVE  /\ request.nodes \subseteq Node
         /\ request.edges \subseteq Edge
         /\ request.lessons \subseteq Lesson
         /\ DOMAIN request.lexical \subseteq request.nodes
         /\ request.lexical \in [DOMAIN request.lexical -> Nat \ {0}]
         /\ DOMAIN request.embeddings \subseteq Node
         /\ \A n \in DOMAIN request.embeddings :
              request.embeddings[n].similarity \in -100..100
BY RequestAssumption

LEMMA LimitsTyped ==
  /\ VectorLimit \in Nat /\ CoreNodeLimit \in Nat /\ NeighborLimit \in Nat
  /\ LessonLimit \in Nat /\ MaxHops \in Nat /\ MaxCandidates \in Nat /\ MinScore \in Nat
BY PolicyAssumption

LEMMA WeightsTyped ==
  /\ LexicalWeight \in Nat /\ VectorWeight \in Nat /\ EdgeStrengthWeight \in Nat
  /\ RecencyWeight \in Nat /\ ImportanceWeight \in Nat /\ ConfidenceWeight \in Nat
BY PolicyAssumption

LEMMA HitsTyped ==
  ASSUME request \in Request, NEW page \in VectorPage
  PROVE  /\ DOMAIN VectorHits(page) \subseteq request.nodes
         /\ VectorHits(page) \in [DOMAIN VectorHits(page) -> Unit]
         /\ \A n \in DOMAIN VectorHits(page) :
              /\ n \in DOMAIN request.embeddings
              /\ request.embeddings[n].model = request.model
              /\ VectorHits(page)[n] > 0 => request.embeddings[n].similarity > 0
         /\ SeedNodeIds(VectorHits(page)) \subseteq request.nodes
         /\ SeedNodeIds(VectorHits(page)) \subseteq Node
<1>1. page \subseteq {n \in DOMAIN request.embeddings :
                        request.embeddings[n].model = request.model}
  BY TopTaken DEF VectorPage
<1>2. \A n \in page : request.embeddings[n].similarity \in -100..100
  BY <1>1, RequestTyped
<1>3. \A n \in page : /\ Higher(0, request.embeddings[n].similarity) \in Unit
                      /\ Higher(0, request.embeddings[n].similarity) > 0 =>
                           request.embeddings[n].similarity > 0
  BY <1>2 DEF Higher, Unit
<1>4. DOMAIN VectorHits(page) = page \intersect request.nodes
  BY DEF VectorHits
<1>5. \A n \in page \intersect request.nodes :
        VectorHits(page)[n] = Higher(0, request.embeddings[n].similarity)
  BY DEF VectorHits
<1>6. VectorHits(page) \in [DOMAIN VectorHits(page) -> Unit]
  BY <1>3 DEF VectorHits
<1> HIDE DEF VectorHits, Higher
<1> QED BY <1>1, <1>3, <1>4, <1>5, <1>6, RequestTyped DEF SeedNodeIds

(* The strongest of the edges between two linked nodes. *)
LEMMA StrongestTyped ==
  ASSUME request \in Request, NEW n \in Node, NEW m \in Neighbors(n)
  PROVE  /\ Strongest(n, m) \in Unit
         /\ Strongest(n, m) = Strongest(m, n)
         /\ n \in Neighbors(m) /\ n \in request.nodes /\ m \in request.nodes /\ m \in Node
<1>1. EdgesBetween(n, m) = EdgesBetween(m, n)
  BY DEF EdgesBetween
<1>2. EdgesBetween(n, m) # {} /\ m \in request.nodes /\ n \in request.nodes
  BY DEF Neighbors, EdgesBetween
<1> DEFINE weights == {e.weight : e \in EdgesBetween(n, m)}
<1>3. \A e \in EdgesBetween(n, m) : e.weight \in Unit
  BY RequestTyped DEF EdgesBetween, Edge
<1>4. weights \subseteq Unit /\ weights # {}
  BY <1>2, <1>3
<1>5. IsFiniteSet(weights) /\ weights \in SUBSET Int
  <2>1. IsFiniteSet(Unit)
    BY FS_Interval, 0 \in Int, 100 \in Int DEF Unit
  <2>2. \A u \in Unit : u \in Int
    BY DEF Unit
  <2> HIDE DEF weights
  <2> QED BY <1>4, <2>1, <2>2, FS_Subset
<1>6. Max(weights) \in weights
  BY <1>4, <1>5, Greatest
<1> QED BY <1>1, <1>2, <1>4, <1>6, RequestTyped DEF Strongest, Neighbors

LEMMA ProductIsNat ==
  ASSUME NEW a \in Nat, NEW b \in Nat
  PROVE  a * b \in Nat
OBVIOUS

LEMMA LexicalScoreIsNat ==
  ASSUME request \in Request, NEW n
  PROVE  LexicalScore(n) \in Nat
<1>1. CASE n \notin DOMAIN request.lexical
  BY <1>1 DEF LexicalScore
<1>2. CASE n \in DOMAIN request.lexical
  <2> DEFINE D == DOMAIN request.lexical
             found == {request.lexical[m] : m \in D}
  <2>1. IsFiniteSet(D)
    BY RequestTyped, NodesFinite
  <2>2. request.lexical \in Surjection(D, found)
    BY RequestTyped DEF Surjection
  <2>3. IsFiniteSet(found)
    BY <2>1, <2>2, FS_Surjection
  <2>4. IsFiniteSet(found \union {100}) /\ found \union {100} \in SUBSET Int
    BY <2>3, FS_AddElement, RequestTyped
  <2>5. Max(found \union {100}) \in Int /\ Max(found \union {100}) >= 100
    <3> HIDE DEF found
    <3> QED BY <2>4, Greatest
  <2>6. 100 * request.lexical[n] \in Nat
    BY <1>2, RequestTyped
  <2>7. \A a \in Nat, b \in Int : b >= 100 => a \div b \in Nat
    OBVIOUS
  <2> QED BY <1>2, <2>5, <2>6, <2>7 DEF LexicalScore
<1> QED BY <1>1, <1>2

-----------------------------------------------------------------------------
(* One turn of the loop over the queue *)

(* current is taken off the queue, found are its neighbors, and those not  *)
(* visited yet are appended in this order.                                 *)
Turned(current, hop, found, order) ==
  /\ queue # <<>> /\ current = queue[1][1] /\ hop = queue[1][2]
  /\ current \in request.nodes /\ hop \in 0..MaxHops
  /\ found = IF hop < MaxHops THEN Neighbors(current) ELSE {}
  /\ found \subseteq request.nodes
  /\ order \in Seq(found \ visited)
  /\ \A i, j \in 1..Len(order) : order[i] = order[j] => i = j
  /\ \A x \in found \ visited : \E i \in 1..Len(order) : order[i] = x
  /\ candidates' = [n \in DOMAIN candidates \union (found \ Seeds) |->
                      IF n \in found THEN Met(n, Strongest(current, n), hop + 1)
                      ELSE candidates[n]]
  /\ visited' = visited \union found
  /\ queue' \in Seq(request.nodes \X (0..MaxHops))
  /\ Len(queue') = Len(queue) - 1 + Len(order)
  /\ \A i \in 1..(Len(queue) - 1) : queue'[i] = queue[i + 1]
  /\ \A i \in 1..Len(order) : queue'[Len(queue) - 1 + i] = <<order[i], hop + 1>>
  /\ UNCHANGED <<recall, request, vector, ranked, packet>>

LEMMA ExpandTurns ==
  ASSUME RecallTypeOK, Expand
  PROVE  \E current, hop, found, order : Turned(current, hop, found, order)
<1> DEFINE current == Head(queue)[1]
           hop     == Head(queue)[2]
           found   == Found(current, hop)
           Entries == request.nodes \X (0..MaxHops)
<1>1. queue \in Seq(Entries) /\ queue # <<>> /\ request \in Request
  BY DEF Expand, RecallTypeOK, CallTypeOK
<1>2. /\ Head(queue) = queue[1] /\ Head(queue) \in Entries
      /\ Len(queue) \in Nat /\ Len(queue) >= 1
      /\ Tail(queue) \in Seq(Entries) /\ Len(Tail(queue)) = Len(queue) - 1
      /\ \A i \in 1..(Len(queue) - 1) : Tail(queue)[i] = queue[i + 1]
  <2>1. /\ Head(queue) \in Entries /\ Tail(queue) \in Seq(Entries)
        /\ Len(Tail(queue)) = Len(queue) - 1
        /\ \A i \in 1..Len(Tail(queue)) : Tail(queue)[i] = queue[i + 1]
    BY <1>1, HeadTailProperties
  <2>2. Len(queue) \in Nat \ {0}
    BY <1>1, EmptySeq
  <2>3. Head(queue) = queue[1]
    BY <1>1
  <2> HIDE DEF Entries
  <2> QED BY <2>1, <2>2, <2>3
<1>3. current \in request.nodes /\ hop \in 0..MaxHops
  BY <1>2
<1>4. found = (IF hop < MaxHops THEN Neighbors(current) ELSE {}) /\ found \subseteq request.nodes
  BY <1>3, LimitsTyped DEF Found, Neighbors
<1>5. PICK order \in SetToSeqs(found \ visited) :
        queue' = Tail(queue) \o [k \in DOMAIN order |-> <<order[k], hop + 1>>]
  BY DEF Expand
<1>6. /\ order \in Seq(found \ visited)
      /\ Len(order) \in Nat /\ DOMAIN order = 1..Len(order)
      /\ \A i, j \in 1..Len(order) : order[i] = order[j] => i = j
      /\ \A i \in 1..Len(order) : order[i] \in found \ visited
      /\ \A x \in found \ visited : \E i \in 1..Len(order) : order[i] = x
  <2>1. IsFiniteSet(found \ visited)
    BY <1>1, <1>4, RequestTyped, NodesFinite
  <2> HIDE DEF found
  <2> QED BY <1>5, <2>1, Ordered
<1> DEFINE new == [k \in 1..Len(order) |-> <<order[k], hop + 1>>]
<1>7. new \in Seq(Entries) /\ Len(new) = Len(order)
  <2>1. ASSUME NEW i \in 1..Len(order)
        PROVE  <<order[i], hop + 1>> \in Entries
    BY <1>3, <1>4, <1>6, LimitsTyped
  <2> HIDE DEF Entries, hop, found
  <2> QED BY <1>6, <2>1
<1>8. /\ queue' \in Seq(Entries)
      /\ Len(queue') = Len(queue) - 1 + Len(order)
      /\ \A i \in 1..(Len(queue) - 1) : queue'[i] = queue[i + 1]
      /\ \A i \in 1..Len(order) : queue'[Len(queue) - 1 + i] = new[i]
  <2>1. queue' = Tail(queue) \o new
    BY <1>5, <1>6
  <2> HIDE DEF Entries, new
  <2>2. /\ queue' \in Seq(Entries)
        /\ Len(queue') = Len(queue) - 1 + Len(order)
        /\ \A i \in 1..(Len(queue) - 1 + Len(order)) :
             queue'[i] = IF i <= Len(queue) - 1 THEN Tail(queue)[i]
                         ELSE new[i - (Len(queue) - 1)]
    <3>1. /\ Tail(queue) \o new \in Seq(Entries)
          /\ Len(Tail(queue) \o new) = Len(Tail(queue)) + Len(new)
          /\ \A i \in 1..(Len(Tail(queue)) + Len(new)) :
               (Tail(queue) \o new)[i] = IF i <= Len(Tail(queue)) THEN Tail(queue)[i]
                                         ELSE new[i - Len(Tail(queue))]
      <4>1. Tail(queue) \in Seq(Entries) /\ new \in Seq(Entries)
        BY <1>2, <1>7
      <4> QED BY <4>1, ConcatProperties
    <3>2. Len(Tail(queue)) = Len(queue) - 1 /\ Len(new) = Len(order)
      BY <1>2, <1>7
    <3> QED BY <2>1, <3>1, <3>2
  <2>3. ASSUME NEW i \in 1..Len(order)
        PROVE  queue'[Len(queue) - 1 + i] = new[i]
    <3>1. /\ Len(queue) - 1 + i \in 1..(Len(queue) - 1 + Len(order))
          /\ ~(Len(queue) - 1 + i <= Len(queue) - 1)
          /\ (Len(queue) - 1 + i) - (Len(queue) - 1) = i
      BY <1>2, <1>6
    <3> QED BY <2>2, <3>1
  <2>4. ASSUME NEW i \in 1..(Len(queue) - 1)
        PROVE  queue'[i] = queue[i + 1]
    BY <1>2, <1>6, <2>2
  <2> QED BY <2>2, <2>3, <2>4
<1>9. /\ candidates' = [n \in DOMAIN candidates \union (found \ Seeds) |->
                          IF n \in found THEN Met(n, Strongest(current, n), hop + 1)
                          ELSE candidates[n]]
      /\ visited' = visited \union found
      /\ UNCHANGED <<recall, request, vector, ranked, packet>>
  BY DEF Expand
<1>10. Turned(current, hop, found, order)
  <2>1. current = queue[1][1] /\ hop = queue[1][2]
    BY <1>2
  <2>2. \A i \in 1..Len(order) : queue'[Len(queue) - 1 + i] = <<order[i], hop + 1>>
    BY <1>8
  <2> HIDE DEF found, current, hop, new
  <2> QED BY <1>1, <1>3, <1>4, <1>6, <1>8, <1>9, <2>1, <2>2 DEF Turned
<1> QED BY <1>10


-----------------------------------------------------------------------------
(* Types, and what the scores say of a hit *)

LEMMA TypeParts ==
  RecallTypeOK <=>
    CallTypeOK /\ HitsTypeOK /\ CandidatesTypeOK /\ RankedTypeOK /\ PacketTypeOK
BY DEF RecallTypeOK

(* What does not change stays what it is. *)
LEMMA PartsKept ==
  ASSUME RecallTypeOK, request' = request
  PROVE  /\ vector' = vector => HitsTypeOK'
         /\ vector' = vector /\ candidates' = candidates /\ visited' = visited => CandidatesTypeOK'
         /\ ranked' = ranked => RankedTypeOK'
         /\ packet' = packet => PacketTypeOK'
         /\ /\ queue' = queue /\ visited' = visited
            /\ recall' \in {"searching", "expanding", "ranked", "done", "failed"}
            => CallTypeOK'
<1>1. CallTypeOK /\ HitsTypeOK /\ CandidatesTypeOK /\ RankedTypeOK /\ PacketTypeOK
  BY TypeParts
<1>2. vector' = vector => Seeds' = Seeds
  BY DEF Seeds, SeedNodeIds
<1>3. vector' = vector => HitsTypeOK'
  BY <1>1 DEF HitsTypeOK
<1>4. vector' = vector /\ candidates' = candidates /\ visited' = visited => CandidatesTypeOK'
  BY <1>1, <1>2 DEF CandidatesTypeOK
<1>5. ranked' = ranked => RankedTypeOK'
  BY <1>1 DEF RankedTypeOK
<1>6. packet' = packet => PacketTypeOK'
  BY <1>1 DEF PacketTypeOK
<1>7. /\ queue' = queue /\ visited' = visited
      /\ recall' \in {"searching", "expanding", "ranked", "done", "failed"}
      => CallTypeOK'
  BY <1>1 DEF CallTypeOK
<1> QED BY <1>3, <1>4, <1>5, <1>6, <1>7

RecallBase ==
  /\ RecallTypeOK
  /\ recall = "searching" => DOMAIN candidates = {} /\ queue = <<>>
  /\ recall \in {"searching", "expanding"} => DOMAIN ranked = {}
  /\ \A n \in DOMAIN vector :
       /\ n \in DOMAIN request.embeddings
       /\ request.embeddings[n].model = request.model
       /\ vector[n] > 0 => request.embeddings[n].similarity > 0
  /\ \A n \in DOMAIN ranked :
       \/ LexicalScore(n) > 0
       \/ n \in DOMAIN vector /\ vector[n] > 0
       \/ n \in DOMAIN candidates /\ candidates[n].edge_strength > 0
  /\ recall \in {"ranked", "done"} => queue = <<>>
  /\ packet.nodes \subseteq DOMAIN ranked

LEMMA SeedsTyped ==
  ASSUME RecallTypeOK
  PROVE  Seeds \subseteq request.nodes /\ request.nodes \subseteq Node
BY RequestTyped DEF RecallTypeOK, CallTypeOK, HitsTypeOK, Seeds, SeedNodeIds

LEMMA BaseInit ==
  ASSUME RecallInit
  PROVE  RecallBase
<1>1. request \in Request
  BY DEF RecallInit
<1>2. CallTypeOK
  BY <1>1, EmptySeq DEF RecallInit, CallTypeOK
<1>3. HitsTypeOK
  BY DEF RecallInit, HitsTypeOK, NoCandidates
<1>4. CandidatesTypeOK
  BY DEF RecallInit, CandidatesTypeOK, NoCandidates
<1>5. RankedTypeOK
  BY DEF RecallInit, RankedTypeOK, NoCandidates
<1>6. PacketTypeOK
  BY DEF RecallInit, PacketTypeOK, NoPacket
<1>7. /\ DOMAIN candidates = {} /\ DOMAIN ranked = {} /\ DOMAIN vector = {}
      /\ packet.nodes = {} /\ queue = <<>> /\ recall = "searching"
  BY DEF RecallInit, NoCandidates, NoPacket
<1> QED BY <1>2, <1>3, <1>4, <1>5, <1>6, <1>7 DEF RecallTypeOK, RecallBase

LEMMA SearchKeepsBase ==
  ASSUME RecallBase, Search
  PROVE  RecallBase'
<1>1. request \in Request /\ request' = request
  BY DEF RecallBase, RecallTypeOK, CallTypeOK, Search
<1>2. PICK page \in VectorPage :
        /\ vector' = VectorHits(page)
        /\ visited' = SeedNodeIds(VectorHits(page))
        /\ \E order \in SetToSeqs(SeedNodeIds(VectorHits(page))) :
             queue' = [k \in DOMAIN order |-> <<order[k], 0>>]
  BY DEF Search
<1>3. PICK order \in SetToSeqs(SeedNodeIds(VectorHits(page))) :
        queue' = [k \in DOMAIN order |-> <<order[k], 0>>]
  BY <1>2
<1>4. queue' \in Seq(request.nodes \X (0..MaxHops))
  <2>1. /\ Len(order) \in Nat /\ DOMAIN order = 1..Len(order)
        /\ \A i \in DOMAIN order : order[i] \in request.nodes
    BY <1>1, Ordered, HitsTyped, NodesFinite
  <2>2. \A i \in DOMAIN order : <<order[i], 0>> \in request.nodes \X (0..MaxHops)
    BY <2>1, LimitsTyped
  <2> QED BY <1>3, <2>1, <2>2
<1>5. DOMAIN candidates' = {} /\ candidates' = candidates /\ recall' = "expanding"
  BY DEF RecallBase, Search
<1>6. DOMAIN ranked' = {} /\ ranked' = ranked /\ packet' = packet
  BY DEF RecallBase, Search
<1>7. RecallTypeOK'
  <2>1. CandidatesTypeOK'
    BY <1>5 DEF CandidatesTypeOK
  <2>2. HitsTypeOK'
    BY <1>1, <1>2, HitsTyped DEF HitsTypeOK
  <2>3. visited' \subseteq request.nodes
    BY <1>1, <1>2, HitsTyped
  <2>4. CallTypeOK'
    BY <1>1, <1>4, <1>5, <2>3 DEF CallTypeOK
  <2>5. RankedTypeOK' /\ PacketTypeOK'
    BY <1>1, <1>6, PartsKept DEF RecallBase
  <2> QED BY <2>1, <2>2, <2>4, <2>5 DEF RecallTypeOK
<1>8. \A n \in DOMAIN vector' :
       /\ n \in DOMAIN request'.embeddings
       /\ request'.embeddings[n].model = request'.model
       /\ vector'[n] > 0 => request'.embeddings[n].similarity > 0
  BY <1>1, <1>2, HitsTyped
<1> QED BY <1>5, <1>6, <1>7, <1>8 DEF RecallBase

LEMMA MetTyped ==
  ASSUME RecallTypeOK, NEW n, NEW weight \in Unit, NEW hop \in 1..MaxHops
  PROVE  /\ Met(n, weight, hop) \in Candidate
         /\ n \notin DOMAIN candidates => /\ Met(n, weight, hop).edge_strength = weight
                                          /\ Met(n, weight, hop).hop_distance = hop
         /\ n \in DOMAIN candidates =>
              /\ Met(n, weight, hop).edge_strength = Higher(candidates[n].edge_strength, weight)
              /\ Met(n, weight, hop).hop_distance = Lower(candidates[n].hop_distance, hop)
              /\ candidates[n].edge_strength \in Unit
              /\ candidates[n].hop_distance \in 1..MaxHops
              /\ Met(n, weight, hop).edge_strength >= candidates[n].edge_strength
<1>1. CASE n \notin DOMAIN candidates
  BY <1>1 DEF Met, Candidate
<1>2. CASE n \in DOMAIN candidates
  <2>1. candidates[n] \in Candidate
    BY <1>2 DEF RecallTypeOK, CandidatesTypeOK
  <2>2. candidates[n].edge_strength \in Unit /\ candidates[n].hop_distance \in 1..MaxHops
    BY <2>1, Zenon DEF Candidate
  <2>3. /\ Higher(candidates[n].edge_strength, weight) \in Unit
        /\ Higher(candidates[n].edge_strength, weight) >= candidates[n].edge_strength
        /\ Lower(candidates[n].hop_distance, hop) \in 1..MaxHops
    <3>1. \A x, y \in 0..100 : Higher(x, y) \in 0..100 /\ Higher(x, y) >= x
      BY DEF Higher
    <3>2. \A m \in Nat : \A x, y \in 1..m : Lower(x, y) \in 1..m
      BY DEF Lower
    <3>3. MaxHops \in Nat
      BY LimitsTyped
    <3> QED BY <2>2, <3>1, <3>2, <3>3 DEF Unit
  <2> QED BY <1>2, <2>2, <2>3 DEF Met, Candidate
<1> QED BY <1>1, <1>2

LEMMA ExpandKeepsBase ==
  ASSUME RecallBase, Expand
  PROVE  RecallBase'
<1>1. RecallTypeOK
  BY DEF RecallBase
<1>2. PICK current, hop, found, order : Turned(current, hop, found, order)
  BY <1>1, ExpandTurns
<1>3. /\ request' = request /\ recall' = recall /\ vector' = vector
      /\ ranked' = ranked /\ packet' = packet /\ recall = "expanding"
  BY <1>2 DEF Turned, Expand
<1>4. Seeds' = Seeds
  BY <1>3 DEF Seeds, SeedNodeIds
<1>5. \A n \in found : Met(n, Strongest(current, n), hop + 1) \in Candidate
  <2> TAKE n \in found
  <2>1. hop + 1 \in 1..MaxHops /\ n \in Neighbors(current) /\ current \in Node
    BY <1>1, <1>2, LimitsTyped, SeedsTyped DEF Turned
  <2>2. Strongest(current, n) \in Unit
    BY <1>1, <2>1, StrongestTyped DEF RecallTypeOK, CallTypeOK
  <2> QED BY <1>1, <2>1, <2>2, MetTyped
<1>6. candidates' \in [DOMAIN candidates' -> Candidate]
  <2>1. \A n \in DOMAIN candidates : candidates[n] \in Candidate
    BY <1>1 DEF RecallTypeOK, CandidatesTypeOK
  <2>2. candidates' = [n \in DOMAIN candidates \union (found \ Seeds) |->
                      IF n \in found THEN Met(n, Strongest(current, n), hop + 1)
                      ELSE candidates[n]]
    BY <1>2 DEF Turned
  <2>3. \A n \in DOMAIN candidates \union (found \ Seeds) : candidates'[n] \in Candidate
    BY <1>5, <2>1, <2>2
  <2> QED BY <2>2, <2>3
<1>7. /\ DOMAIN candidates' = DOMAIN candidates \union (found \ Seeds)
      /\ found \subseteq request.nodes /\ visited' = visited \union found
      /\ queue' \in Seq(request.nodes \X (0..MaxHops))
  BY <1>2 DEF Turned
<1>8. DOMAIN candidates' \subseteq visited' \ Seeds' /\ visited' \subseteq request.nodes
  <2>1. CandidatesTypeOK /\ CallTypeOK
    BY <1>1, TypeParts
  <2> QED BY <1>4, <1>7, <2>1 DEF CandidatesTypeOK, CallTypeOK
<1>9. RecallTypeOK'
  <2>1. CandidatesTypeOK'
    BY <1>6, <1>8 DEF CandidatesTypeOK
  <2>2. CallTypeOK
    BY <1>1, TypeParts
  <2>3. CallTypeOK'
    BY <1>3, <1>7, <1>8, <2>2 DEF CallTypeOK
  <2>4. HitsTypeOK' /\ RankedTypeOK' /\ PacketTypeOK'
    BY <1>1, <1>3, PartsKept
  <2> QED BY <2>1, <2>3, <2>4 DEF RecallTypeOK
<1>10. DOMAIN ranked' = {}
  BY <1>3 DEF RecallBase
<1> QED BY <1>3, <1>9, <1>10 DEF RecallBase

LEMMA LowerBounded ==
  ASSUME NEW most \in Nat, NEW x \in Nat
  PROVE  Lower(most, x) \in 0..most
BY DEF Lower

LEMMA TotalTyped ==
  ASSUME RecallTypeOK, NEW kept \in Kept, NEW n \in request.nodes
  PROVE  Total(n, kept) \in 0..Full
<1> DEFINE sum == LexicalScore(n) * LexicalWeight + VectorScore(n) * VectorWeight
                    + EdgeStrength(n, kept) * EdgeStrengthWeight
                    + Recency[n] * RecencyWeight + Importance[n] * ImportanceWeight
                    + Confidence[n] * ConfidenceWeight
<1>1. request \in Request /\ n \in Node
  <2>1. request \in Request
    BY DEF RecallTypeOK, CallTypeOK
  <2> QED BY <2>1, SeedsTyped
<1>2. LexicalScore(n) \in Nat
  BY <1>1, LexicalScoreIsNat
<1>3. VectorScore(n) \in Nat
  <2>1. HitsTypeOK
    BY TypeParts
  <2> QED BY <2>1 DEF VectorScore, HitsTypeOK, Unit
<1>4. EdgeStrength(n, kept) \in Nat
  <2>1. kept \subseteq DOMAIN candidates
    BY TopTaken DEF Kept
  <2>2. \A m \in DOMAIN candidates : candidates[m] \in Candidate
    BY TypeParts DEF CandidatesTypeOK
  <2>3. \A m \in DOMAIN candidates : candidates[m].edge_strength \in Unit
    BY <2>2, Zenon DEF Candidate
  <2> QED BY <2>1, <2>3 DEF EdgeStrength, Unit
<1>5. Recency[n] \in Nat /\ Importance[n] \in Nat /\ Confidence[n] \in Nat
  BY <1>1, RecencyAssumption, NodeAssumption DEF Unit
<1>6. sum \in Nat
  <2>1. /\ LexicalScore(n) * LexicalWeight \in Nat
        /\ VectorScore(n) * VectorWeight \in Nat
        /\ EdgeStrength(n, kept) * EdgeStrengthWeight \in Nat
        /\ Recency[n] * RecencyWeight \in Nat
        /\ Importance[n] * ImportanceWeight \in Nat
        /\ Confidence[n] * ConfidenceWeight \in Nat
    BY <1>2, <1>3, <1>4, <1>5, WeightsTyped, ProductIsNat
  <2>2. \A a, b, c, d, e, f \in Nat : a + b + c + d + e + f \in Nat
    OBVIOUS
  <2> QED BY <2>1, <2>2
<1>7. Total(n, kept) = Lower(Full, sum)
  BY DEF Total
<1>8. Full \in Nat
  BY DEF Full
<1> HIDE DEF sum
<1>9. Lower(Full, sum) \in 0..Full
  BY <1>6, <1>8, LowerBounded
<1> QED BY <1>7, <1>9

LEMMA RankKeepsBase ==
  ASSUME RecallBase, MergeAndRank
  PROVE  RecallBase'
<1>1. RecallTypeOK
  BY DEF RecallBase
<1>2. PICK kept \in Kept : ranked' = [n \in Ranked(kept) |-> Total(n, kept)]
  BY DEF MergeAndRank
<1>3. /\ request' = request /\ recall' = "ranked" /\ vector' = vector /\ queue = <<>>
      /\ queue' = queue /\ visited' = visited /\ candidates' = candidates /\ packet' = packet
      /\ recall = "expanding"
  BY DEF MergeAndRank
<1>4. DOMAIN ranked' = Ranked(kept) /\ Ranked(kept) \subseteq request.nodes
  BY <1>2 DEF Ranked
<1>5. ranked' \in [DOMAIN ranked' -> 0..Full]
  BY <1>1, <1>2, <1>4, TotalTyped
<1>6. Seeds' = Seeds
  BY <1>3 DEF Seeds, SeedNodeIds
<1>7. RecallTypeOK'
  <2>1. CallTypeOK' /\ HitsTypeOK' /\ CandidatesTypeOK' /\ PacketTypeOK'
    BY <1>1, <1>3, PartsKept
  <2>2. RankedTypeOK'
    <3>1. DOMAIN ranked' \subseteq request'.nodes
      BY <1>3, <1>4
    <3> QED BY <1>5, <3>1, Zenon DEF RankedTypeOK
  <2> QED BY <2>1, <2>2 DEF RecallTypeOK
<1>8. ASSUME NEW n \in DOMAIN ranked'
      PROVE  \/ LexicalScore(n)' > 0
             \/ n \in DOMAIN vector' /\ vector'[n] > 0
             \/ n \in DOMAIN candidates' /\ candidates'[n].edge_strength > 0
  <2>1. LexicalScore(n) > 0 \/ VectorScore(n) > 0 \/ EdgeStrength(n, kept) > 0
    BY <1>4, <1>8 DEF Ranked
  <2>2. LexicalScore(n)' = LexicalScore(n)
    BY <1>3 DEF LexicalScore
  <2>3. VectorScore(n) > 0 => n \in DOMAIN vector /\ vector[n] > 0
    BY DEF VectorScore
  <2>4. kept \subseteq DOMAIN candidates
    BY TopTaken DEF Kept
  <2>5. EdgeStrength(n, kept) > 0 => n \in kept /\ candidates[n].edge_strength > 0
    BY DEF EdgeStrength
  <2> QED BY <1>3, <2>1, <2>2, <2>3, <2>4, <2>5
<1>9. packet'.nodes \subseteq DOMAIN ranked'
  BY <1>3 DEF RecallBase
<1>10. /\ recall' \notin {"searching", "expanding"}
       /\ queue' = <<>>
       /\ \A n \in DOMAIN vector' :
            /\ n \in DOMAIN request'.embeddings
            /\ request'.embeddings[n].model = request'.model
            /\ vector'[n] > 0 => request'.embeddings[n].similarity > 0
  BY <1>3 DEF RecallBase
<1> QED BY <1>7, <1>8, <1>9, <1>10 DEF RecallBase

(* What a packet is made of. *)
Packed(core, related) ==
  /\ core \subseteq DOMAIN ranked /\ related \subseteq DOMAIN ranked
  /\ packet'.nodes = core \union related
  /\ packet'.edges = {e \in request.edges : {e.from, e.to} \subseteq core \union related}
  /\ packet'.lessons \in SelectLessons(core \union related)
  /\ packet'.lessons \subseteq request.lessons
  /\ recall = "ranked" /\ recall' = "done"
  /\ UNCHANGED <<request, vector, queue, visited, candidates, ranked>>

LEMMA AssemblePacks ==
  ASSUME AssembleMemoryPacket
  PROVE  \E core, related : Packed(core, related)
<1>1. PICK core \in Top({n \in DOMAIN ranked : ranked[n] >= MinScore},
                        Clamp(CoreNodeLimit, 3, 5), ranked) :
        \E related \in Top(DOMAIN ranked \ core, Clamp(NeighborLimit, 2, 3), ranked) :
        \E lessons \in SelectLessons(core \union related) :
          packet' = [nodes   |-> core \union related,
                     edges   |-> {e \in request.edges :
                                    {e.from, e.to} \subseteq core \union related},
                     lessons |-> lessons]
  BY DEF AssembleMemoryPacket
<1>2. PICK related \in Top(DOMAIN ranked \ core, Clamp(NeighborLimit, 2, 3), ranked) :
        \E lessons \in SelectLessons(core \union related) :
          packet' = [nodes   |-> core \union related,
                     edges   |-> {e \in request.edges :
                                    {e.from, e.to} \subseteq core \union related},
                     lessons |-> lessons]
  BY <1>1
<1>3. PICK lessons \in SelectLessons(core \union related) :
        packet' = [nodes   |-> core \union related,
                   edges   |-> {e \in request.edges :
                                  {e.from, e.to} \subseteq core \union related},
                   lessons |-> lessons]
  BY <1>2
<1>4. core \subseteq DOMAIN ranked
  BY <1>1, TopTaken
<1>5. related \subseteq DOMAIN ranked
  BY <1>2, TopTaken
<1>6. lessons \subseteq request.lessons
  <2>1. \A S, k, score : \A T \in Top(S, k, score) : T \subseteq S
    BY TopTaken
  <2>2. lessons \subseteq {l \in request.lessons : LessonScore(l, core \union related) > 0}
    BY <1>3, <2>1, Zenon DEF SelectLessons
  <2> QED BY <2>2
<1>7. /\ packet'.nodes = core \union related
      /\ packet'.edges = {e \in request.edges : {e.from, e.to} \subseteq core \union related}
      /\ packet'.lessons = lessons
  BY <1>3
<1>8. /\ recall = "ranked" /\ recall' = "done"
      /\ UNCHANGED <<request, vector, queue, visited, candidates, ranked>>
  BY DEF AssembleMemoryPacket
<1> QED BY <1>3, <1>4, <1>5, <1>6, <1>7, <1>8 DEF Packed

LEMMA AssembleKeepsBase ==
  ASSUME RecallBase, AssembleMemoryPacket
  PROVE  RecallBase'
<1>1. RecallTypeOK
  BY DEF RecallBase
<1>2. PICK core, related : Packed(core, related)
  BY AssemblePacks
<1>3. /\ request' = request /\ recall' = "done" /\ vector' = vector /\ recall = "ranked"
      /\ queue' = queue /\ visited' = visited /\ candidates' = candidates /\ ranked' = ranked
  BY <1>2 DEF Packed
<1>4. Seeds' = Seeds
  BY <1>3 DEF Seeds, SeedNodeIds
<1>5. /\ packet'.nodes \subseteq DOMAIN ranked'
      /\ packet'.nodes \subseteq request'.nodes
      /\ packet'.edges \subseteq request'.edges
      /\ packet'.lessons \subseteq request'.lessons
  BY <1>1, <1>2, <1>3 DEF Packed, RecallTypeOK, RankedTypeOK
<1>6. RecallTypeOK'
  <2>1. CallTypeOK' /\ HitsTypeOK' /\ CandidatesTypeOK' /\ RankedTypeOK'
    BY <1>1, <1>3, PartsKept
  <2>2. PacketTypeOK'
    BY <1>5 DEF PacketTypeOK
  <2> QED BY <2>1, <2>2 DEF RecallTypeOK
<1>7. \A n : LexicalScore(n)' = LexicalScore(n)
  BY <1>3 DEF LexicalScore
<1>8. /\ recall' \notin {"searching", "expanding"}
      /\ queue' = <<>>
      /\ \A n \in DOMAIN vector' :
            /\ n \in DOMAIN request'.embeddings
            /\ request'.embeddings[n].model = request'.model
            /\ vector'[n] > 0 => request'.embeddings[n].similarity > 0
  BY <1>3 DEF RecallBase
<1>9. \A n \in DOMAIN ranked' :
        \/ LexicalScore(n)' > 0
        \/ n \in DOMAIN vector' /\ vector'[n] > 0
        \/ n \in DOMAIN candidates' /\ candidates'[n].edge_strength > 0
  BY <1>3, <1>7 DEF RecallBase
<1> QED BY <1>5, <1>6, <1>8, <1>9 DEF RecallBase

LEMMA RecallStandsStill ==
  ASSUME RecallBase, SearchFails \/ UNCHANGED recallVars
  PROVE  RecallBase'
<1>1. /\ request' = request /\ vector' = vector /\ queue' = queue /\ visited' = visited
      /\ candidates' = candidates /\ ranked' = ranked /\ packet' = packet
      /\ recall' = recall \/ (recall' = "failed" /\ recall = "searching")
  BY DEF SearchFails, recallVars
<1>2. Seeds' = Seeds
  BY <1>1 DEF Seeds, SeedNodeIds
<1>3. \A n : LexicalScore(n)' = LexicalScore(n)
  BY <1>1 DEF LexicalScore
<1>4. RecallTypeOK'
  <2>1. recall' \in {"searching", "expanding", "ranked", "done", "failed"}
    BY <1>1 DEF RecallBase, RecallTypeOK, CallTypeOK
  <2>2. CallTypeOK' /\ HitsTypeOK' /\ CandidatesTypeOK' /\ RankedTypeOK' /\ PacketTypeOK'
    BY <1>1, <2>1, PartsKept DEF RecallBase
  <2> QED BY <2>2 DEF RecallTypeOK
<1>5. /\ recall' = "searching" => DOMAIN candidates' = {} /\ queue' = <<>>
      /\ recall' \in {"searching", "expanding"} => DOMAIN ranked' = {}
      /\ recall' \in {"ranked", "done"} => queue' = <<>>
      /\ packet'.nodes \subseteq DOMAIN ranked'
  BY <1>1 DEF RecallBase
<1>6. /\ \A n \in DOMAIN vector' :
            /\ n \in DOMAIN request'.embeddings
            /\ request'.embeddings[n].model = request'.model
            /\ vector'[n] > 0 => request'.embeddings[n].similarity > 0
      /\ \A n \in DOMAIN ranked' :
           \/ LexicalScore(n)' > 0
           \/ n \in DOMAIN vector' /\ vector'[n] > 0
           \/ n \in DOMAIN candidates' /\ candidates'[n].edge_strength > 0
  BY <1>1, <1>3 DEF RecallBase
<1> QED BY <1>4, <1>5, <1>6 DEF RecallBase

-----------------------------------------------------------------------------
(* The expansion, as a search of a graph: a queue q of nodes to expand and *)
(* their hops, the nodes v visited, and the candidates c.  links are the   *)
(* neighbors of each node, strong is the strongest edge to one of them,    *)
(* and W[k] are the nodes at most k hops from a seed.                      *)

Graph(links, strong) ==
  /\ links \in [Node -> SUBSET Node]
  /\ \A n \in Node : \A m \in links[n] :
       /\ n \in links[m]
       /\ strong[<<n, m>>] \in Unit
       /\ strong[<<n, m>>] = strong[<<m, n>>]

(* n is h hops from the nearest seed, and no less. *)
At(W, n, h) == /\ h \in Nat /\ n \in W[h]
               /\ \A k \in Nat : k < h => n \notin W[k]

(* The nodes that wait in a queue. *)
Waiting(q) == {q[i][1] : i \in 1..Len(q)}

(* The nodes that are expanded are expanded for good. *)
Inner(W, n) == MaxHops > 0 /\ n \in W[MaxHops - 1]

(* The queue holds distinct visited nodes by their distance, which differs *)
(* by one at most.                                                         *)
QueueInOrder(W, q, v) ==
  /\ Len(q) \in Nat
  /\ \A i \in 1..Len(q) :
       /\ q[i][1] \in v
       /\ q[i][2] \in 0..MaxHops
       /\ At(W, q[i][1], q[i][2])
  /\ \A i, j \in 1..Len(q) : i <= j => q[i][2] <= q[j][2] /\ q[j][2] <= q[i][2] + 1
  /\ \A i, j \in 1..Len(q) : q[i][1] = q[j][1] => i = j

(* What was taken off the queue was no farther than what is in it, and its *)
(* neighbors are visited unless it was too far to be expanded.             *)
VisitedInOrder(W, links, seeds, q, v) ==
  /\ seeds \subseteq v /\ v \subseteq W[MaxHops]
  /\ \A m \in v \ Waiting(q) :
       /\ \A i \in 1..Len(q) : m \in W[q[i][2]]
       /\ Inner(W, m) => links[m] \subseteq v

(* A candidate has its distance, and the strongest edge expanded so far.   *)
CandidatesInOrder(W, links, strong, seeds, q, v, c) ==
  /\ DOMAIN c = v \ seeds
  /\ \A n \in DOMAIN c :
       /\ c[n] \in Candidate
       /\ At(W, n, c[n].hop_distance)
       /\ \E m \in links[n] : Inner(W, m) /\ c[n].edge_strength = strong[<<m, n>>]
       /\ \A m \in links[n] \ Waiting(q) :
            m \in v /\ Inner(W, m) => c[n].edge_strength >= strong[<<m, n>>]

Explored(W, links, strong, seeds, q, v, c) ==
  /\ QueueInOrder(W, q, v)
  /\ VisitedInOrder(W, links, seeds, q, v)
  /\ CandidatesInOrder(W, links, strong, seeds, q, v, c)

LEMMA CandidateFields ==
  ASSUME NEW r \in Candidate
  PROVE  r.edge_strength \in Unit /\ r.hop_distance \in 1..MaxHops
BY Zenon DEF Candidate

(* As far as nothing nearer waits, everything is visited. *)
LEMMA NearVisited ==
  ASSUME NEW W, NEW links, NEW seeds, NEW q, NEW v,
         links \in [Node -> SUBSET Node], Reaches(W, seeds, links),
         QueueInOrder(W, q, v), VisitedInOrder(W, links, seeds, q, v),
         NEW far \in 0..MaxHops, \A i \in 1..Len(q) : far <= q[i][2]
  PROVE  \A k \in 0..far : W[k] \subseteq v
<1> DEFINE Bad == {k \in 0..far : ~(W[k] \subseteq v)}
<1> SUFFICES ASSUME Bad # {} PROVE FALSE
  OBVIOUS
<1>1. PICK k \in Bad : \A x \in Bad : k <= x
  <2>1. Bad \in SUBSET Nat
    BY LimitsTyped
  <2> HIDE DEF Bad
  <2> QED BY <2>1, Least
<1>2. k \in 0..far /\ ~(W[k] \subseteq v)
  BY <1>1
<1>3. k # 0
  <2>1. W[0] \subseteq v
    BY DEF Reaches, VisitedInOrder
  <2> QED BY <1>2, <2>1
<1>4. /\ k - 1 \in Nat /\ k - 1 \in 0..far /\ (k - 1) + 1 = k
      /\ k - 1 <= MaxHops - 1 /\ MaxHops > 0 /\ MaxHops - 1 \in Nat
  BY <1>2, <1>3, LimitsTyped
<1>5. W[k - 1] \subseteq v
  BY <1>1, <1>4
<1>6. PICK x \in W[k] : x \notin v
  BY <1>2
<1>7. W[k] = W[k - 1] \union UNION {links[n] : n \in W[k - 1]}
  BY <1>4 DEF Reaches
<1>8. PICK m \in W[k - 1] : x \in links[m]
  BY <1>5, <1>6, <1>7
<1>9. m \notin Waiting(q)
  <2> SUFFICES ASSUME m \in Waiting(q) PROVE FALSE
    OBVIOUS
  <2>1. PICK i \in 1..Len(q) : q[i][1] = m
    BY DEF Waiting
  <2>2. At(W, m, q[i][2]) /\ q[i][2] \in 0..MaxHops
    BY <2>1 DEF QueueInOrder
  <2>3. k - 1 < q[i][2]
    <3>1. far <= q[i][2]
      OBVIOUS
    <3>2. q[i][2] \in Int /\ far \in Int /\ k \in Int /\ k <= far
      BY <1>2, <2>2, LimitsTyped
    <3> QED BY <3>1, <3>2
  <2> QED BY <1>4, <1>8, <2>2, <2>3 DEF At
<1>10. Inner(W, m)
  <2>1. W[k - 1] \subseteq W[MaxHops - 1]
    BY <1>4, ReachGrows
  <2> QED BY <1>4, <1>8, <2>1 DEF Inner
<1>11. links[m] \subseteq v
  BY <1>5, <1>8, <1>9, <1>10 DEF VisitedInOrder
<1> QED BY <1>6, <1>8, <1>11

(* One turn of the loop takes current off the queue q, at distance hop; v2 *)
(* and c2 have what was found, and q2 has what was not visited at its end. *)
Turning(links, strong, seeds, q, v, c, q2, v2, c2, current, hop, found, order) ==
  /\ Len(q) \in Nat /\ Len(q) >= 1 /\ current = q[1][1] /\ hop = q[1][2]
  /\ found = IF hop < MaxHops THEN links[current] ELSE {}
  /\ Len(order) \in Nat
  /\ \A i \in 1..Len(order) : order[i] \in found \ v
  /\ \A i, j \in 1..Len(order) : order[i] = order[j] => i = j
  /\ \A x \in found \ v : \E i \in 1..Len(order) : order[i] = x
  /\ v2 = v \union found
  /\ Len(q2) = Len(q) - 1 + Len(order)
  /\ \A i \in 1..(Len(q) - 1) : q2[i] = q[i + 1]
  /\ \A i \in 1..Len(order) : q2[Len(q) - 1 + i] = <<order[i], hop + 1>>
  /\ DOMAIN c2 = DOMAIN c \union (found \ seeds)
  /\ \A n \in DOMAIN c2 :
       /\ n \notin found => c2[n] = c[n]
       /\ n \in found => c2[n] \in Candidate
       /\ n \in found \ DOMAIN c => /\ c2[n].edge_strength = strong[<<current, n>>]
                                    /\ c2[n].hop_distance = hop + 1
       /\ n \in found \intersect DOMAIN c =>
            /\ c2[n].edge_strength = Higher(c[n].edge_strength, strong[<<current, n>>])
            /\ c2[n].hop_distance = Lower(c[n].hop_distance, hop + 1)

(* An entry of the new queue is an old one or a new one. *)
LEMMA QueueAfter ==
  ASSUME NEW links, NEW strong, NEW seeds, NEW q, NEW v, NEW c, NEW q2, NEW v2, NEW c2,
         NEW current, NEW hop, NEW found, NEW order,
         Turning(links, strong, seeds, q, v, c, q2, v2, c2, current, hop, found, order)
  PROVE  /\ Len(q2) \in Nat
         /\ \A k \in 1..Len(q2) :
              \/ k \in 1..(Len(q) - 1) /\ k + 1 \in 1..Len(q) /\ q2[k] = q[k + 1]
              \/ \E i \in 1..Len(order) : k = Len(q) - 1 + i /\ q2[k] = <<order[i], hop + 1>>
<1>1. /\ Len(q) \in Nat /\ Len(q) >= 1 /\ Len(order) \in Nat
      /\ Len(q2) = Len(q) - 1 + Len(order)
      /\ \A i \in 1..(Len(q) - 1) : q2[i] = q[i + 1]
      /\ \A i \in 1..Len(order) : q2[Len(q) - 1 + i] = <<order[i], hop + 1>>
  BY DEF Turning
<1>2. ASSUME NEW k \in 1..Len(q2), ~(k \in 1..(Len(q) - 1))
      PROVE  \E i \in 1..Len(order) : k = Len(q) - 1 + i /\ q2[k] = <<order[i], hop + 1>>
  <2>1. k - (Len(q) - 1) \in 1..Len(order) /\ k = Len(q) - 1 + (k - (Len(q) - 1))
    BY <1>1, <1>2
  <2> QED BY <1>1, <2>1
<1>3. ASSUME NEW k \in 1..(Len(q) - 1)
      PROVE  k + 1 \in 1..Len(q) /\ q2[k] = q[k + 1]
  BY <1>1
<1>4. Len(q2) \in Nat
  BY <1>1
<1> QED BY <1>2, <1>3, <1>4

LEMMA CurrentIsNearest ==
  ASSUME NEW W, NEW links, NEW strong, NEW seeds, NEW q, NEW v, NEW c,
         NEW q2, NEW v2, NEW c2, NEW current, NEW hop, NEW found, NEW order,
         Graph(links, strong), Reaches(W, seeds, links),
         Explored(W, links, strong, seeds, q, v, c),
         Turning(links, strong, seeds, q, v, c, q2, v2, c2, current, hop, found, order)
  PROVE  /\ current \in v /\ current \in Node /\ current \in Waiting(q)
         /\ hop \in 0..MaxHops /\ At(W, current, hop)
         /\ Inner(W, current) <=> hop < MaxHops
         /\ \A i \in 1..Len(q) : hop <= q[i][2] /\ q[i][2] <= hop + 1 /\ q[i][2] \in 0..MaxHops
         /\ \A x \in found : /\ x \in links[current] /\ current \in links[x] /\ x \in Node
                             /\ x \in W[hop + 1] /\ hop < MaxHops
         /\ \A x \in found \ v : At(W, x, hop + 1)
<1>1. /\ Len(q) \in Nat /\ 1 \in 1..Len(q) /\ current = q[1][1] /\ hop = q[1][2]
      /\ found = IF hop < MaxHops THEN links[current] ELSE {}
  BY DEF Turning
<1>2. current \in v /\ hop \in 0..MaxHops /\ At(W, current, hop) /\ current \in Waiting(q)
  BY <1>1 DEF Explored, QueueInOrder, Waiting
<1>3. W \in [Nat -> SUBSET Node] /\ MaxHops \in Nat
  BY LimitsTyped DEF Reaches
<1>4. current \in Node
  BY <1>2, <1>3 DEF Explored, VisitedInOrder
<1>5. Inner(W, current) <=> hop < MaxHops
  <2>1. CASE hop < MaxHops
    <3>1. MaxHops > 0 /\ MaxHops - 1 \in Nat /\ hop <= MaxHops - 1 /\ hop \in Nat
      BY <1>2, <1>3, <2>1
    <3>2. W[hop] \subseteq W[MaxHops - 1]
      BY <3>1, ReachGrows
    <3> QED BY <1>2, <2>1, <3>1, <3>2 DEF At, Inner
  <2>2. CASE ~(hop < MaxHops)
    <3>1. MaxHops > 0 => MaxHops - 1 \in Nat /\ MaxHops - 1 < hop
      BY <1>2, <1>3, <2>2
    <3> QED BY <1>2, <2>2, <3>1 DEF At, Inner
  <2> QED BY <2>1, <2>2
<1>6. \A i \in 1..Len(q) : hop <= q[i][2] /\ q[i][2] <= hop + 1 /\ q[i][2] \in 0..MaxHops
  <2>1. \A i \in 1..Len(q) : 1 <= i
    BY <1>1
  <2> QED BY <1>1, <2>1 DEF Explored, QueueInOrder
<1>7. ASSUME NEW x \in found
      PROVE  /\ x \in links[current] /\ current \in links[x] /\ x \in Node
             /\ x \in W[hop + 1] /\ hop < MaxHops
  <2>1. x \in links[current] /\ hop < MaxHops
    BY <1>1, <1>7
  <2>2. x \in Node /\ current \in links[x]
    BY <1>4, <2>1 DEF Graph
  <2>3. hop \in Nat /\ W[hop + 1] = W[hop] \union UNION {links[n] : n \in W[hop]}
    BY <1>2, <1>3 DEF Reaches
  <2> QED BY <1>2, <2>1, <2>2, <2>3 DEF At
<1>8. ASSUME NEW x \in found \ v
      PROVE  At(W, x, hop + 1)
  <2>1. \A k \in 0..hop : W[k] \subseteq v
    BY <1>2, <1>6, NearVisited DEF Graph, Explored
  <2>2. hop + 1 \in Nat /\ \A k \in Nat : k < hop + 1 => k \in 0..hop
    BY <1>2, <1>3
  <2> QED BY <1>7, <1>8, <2>1, <2>2 DEF At
<1> QED BY <1>2, <1>4, <1>5, <1>6, <1>7, <1>8

LEMMA WaitingAfter ==
  ASSUME NEW W, NEW links, NEW strong, NEW seeds, NEW q, NEW v, NEW c,
         NEW q2, NEW v2, NEW c2, NEW current, NEW hop, NEW found, NEW order,
         Graph(links, strong), Reaches(W, seeds, links),
         Explored(W, links, strong, seeds, q, v, c),
         Turning(links, strong, seeds, q, v, c, q2, v2, c2, current, hop, found, order)
  PROVE  /\ Waiting(q2) = (Waiting(q) \ {current}) \union (found \ v)
         /\ v2 \ Waiting(q2) = (v \ Waiting(q)) \union {current}
<1>1. /\ Len(q) \in Nat /\ 1 \in 1..Len(q) /\ current = q[1][1]
      /\ \A i, j \in 1..Len(q) : q[i][1] = q[j][1] => i = j
      /\ \A i \in 1..Len(q) : q[i][1] \in v
  BY DEF Turning, Explored, QueueInOrder
<1>2. ASSUME NEW x \in Waiting(q2)
      PROVE  x \in (Waiting(q) \ {current}) \union (found \ v)
  <2>1. PICK k \in 1..Len(q2) : q2[k][1] = x
    BY <1>2 DEF Waiting
  <2>2. CASE k \in 1..(Len(q) - 1) /\ k + 1 \in 1..Len(q) /\ q2[k] = q[k + 1]
    <3>1. x = q[k + 1][1] /\ k + 1 # 1
      BY <1>1, <2>1, <2>2
    <3>2. x # current
      BY <1>1, <2>2, <3>1
    <3> QED BY <2>2, <3>1, <3>2 DEF Waiting
  <2>3. CASE \E i \in 1..Len(order) : k = Len(q) - 1 + i /\ q2[k] = <<order[i], hop + 1>>
    <3>1. PICK i \in 1..Len(order) : q2[k] = <<order[i], hop + 1>>
      BY <2>3
    <3>2. x = order[i] /\ order[i] \in found \ v
      BY <2>1, <3>1 DEF Turning
    <3> QED BY <3>2
  <2>4. \A y \in 1..Len(q2) :
          \/ y \in 1..(Len(q) - 1) /\ y + 1 \in 1..Len(q) /\ q2[y] = q[y + 1]
          \/ \E i \in 1..Len(order) : y = Len(q) - 1 + i /\ q2[y] = <<order[i], hop + 1>>
    BY QueueAfter
  <2> QED BY <2>2, <2>3, <2>4
<1>3. ASSUME NEW x \in Waiting(q) \ {current}
      PROVE  x \in Waiting(q2)
  <2>1. PICK i \in 1..Len(q) : q[i][1] = x
    BY <1>3 DEF Waiting
  <2>2. i # 1
    BY <1>1, <1>3, <2>1
  <2>3. i - 1 \in 1..(Len(q) - 1) /\ (i - 1) + 1 = i
    BY <1>1, <2>1, <2>2
  <2>4. q2[i - 1] = q[i] /\ i - 1 \in 1..Len(q2)
    BY <1>1, <2>3 DEF Turning
  <2> QED BY <2>1, <2>4 DEF Waiting
<1>4. ASSUME NEW x \in found \ v
      PROVE  x \in Waiting(q2)
  <2>1. PICK i \in 1..Len(order) : order[i] = x
    BY <1>4 DEF Turning
  <2>2. q2[Len(q) - 1 + i] = <<x, hop + 1>> /\ Len(q) - 1 + i \in 1..Len(q2)
    BY <1>1, <2>1 DEF Turning
  <2>3. q2[Len(q) - 1 + i][1] = x
    BY <2>2
  <2> QED BY <2>2, <2>3 DEF Waiting
<1>5. Waiting(q2) = (Waiting(q) \ {current}) \union (found \ v)
  BY <1>2, <1>3, <1>4
<1>6. v2 = v \union found /\ current \in v /\ current \in Waiting(q)
  <2>1. v2 = v \union found
    BY DEF Turning
  <2>2. current \in v /\ current \in Waiting(q)
    BY CurrentIsNearest
  <2> QED BY <2>1, <2>2
<1> HIDE DEF Waiting
<1> QED BY <1>5, <1>6

LEMMA QueueStaysInOrder ==
  ASSUME NEW W, NEW links, NEW strong, NEW seeds, NEW q, NEW v, NEW c,
         NEW q2, NEW v2, NEW c2, NEW current, NEW hop, NEW found, NEW order,
         Graph(links, strong), Reaches(W, seeds, links),
         Explored(W, links, strong, seeds, q, v, c),
         Turning(links, strong, seeds, q, v, c, q2, v2, c2, current, hop, found, order)
  PROVE  QueueInOrder(W, q2, v2)
<1> DEFINE Old(k) == k \in 1..(Len(q) - 1) /\ k + 1 \in 1..Len(q) /\ q2[k] = q[k + 1]
           New(k, i) == /\ i \in 1..Len(order) /\ k = Len(q) - 1 + i
                        /\ q2[k] = <<order[i], hop + 1>>
<1>1. Len(q2) \in Nat /\ \A k \in 1..Len(q2) : Old(k) \/ \E i : New(k, i)
  <2>1. Len(q2) \in Nat /\ \A k \in 1..Len(q2) :
          \/ k \in 1..(Len(q) - 1) /\ k + 1 \in 1..Len(q) /\ q2[k] = q[k + 1]
          \/ \E i \in 1..Len(order) : k = Len(q) - 1 + i /\ q2[k] = <<order[i], hop + 1>>
    BY QueueAfter
  <2> QED BY <2>1
<1>2. QueueInOrder(W, q, v)
  BY DEF Explored
<1>3. /\ hop \in 0..MaxHops
      /\ \A i \in 1..Len(q) : hop <= q[i][2] /\ q[i][2] <= hop + 1 /\ q[i][2] \in 0..MaxHops
      /\ \A x \in found : hop < MaxHops
      /\ \A x \in found \ v : At(W, x, hop + 1)
  BY CurrentIsNearest
<1>4. /\ v2 = v \union found /\ Len(q) \in Nat
      /\ \A i \in 1..Len(order) : order[i] \in found \ v
      /\ \A i, j \in 1..Len(order) : order[i] = order[j] => i = j
  BY DEF Turning
<1>5. ASSUME NEW k, Old(k)
      PROVE  /\ q2[k][1] \in v /\ q2[k][2] \in 0..MaxHops /\ At(W, q2[k][1], q2[k][2])
             /\ hop <= q2[k][2] /\ q2[k][2] <= hop + 1
  BY <1>2, <1>3, <1>5 DEF QueueInOrder
<1>6. ASSUME NEW k, NEW i, New(k, i)
      PROVE  /\ q2[k][1] \in found \ v /\ q2[k][2] = hop + 1 /\ q2[k][2] \in 0..MaxHops
             /\ At(W, q2[k][1], q2[k][2]) /\ q2[k][1] = order[i]
  <2>1. order[i] \in found \ v /\ q2[k][1] = order[i] /\ q2[k][2] = hop + 1
    BY <1>4, <1>6
  <2>2. hop + 1 \in 0..MaxHops
    BY <1>3, <2>1, LimitsTyped
  <2> QED BY <1>3, <2>1, <2>2
<1>7. \A i \in 1..Len(q2) : /\ q2[i][1] \in v2
                            /\ q2[i][2] \in 0..MaxHops
                            /\ At(W, q2[i][1], q2[i][2])
  BY <1>1, <1>4, <1>5, <1>6
<1>8. ASSUME NEW i \in 1..Len(q2), NEW j \in 1..Len(q2), i <= j
      PROVE  q2[i][2] <= q2[j][2] /\ q2[j][2] <= q2[i][2] + 1
  <2>1. CASE Old(i) /\ Old(j)
    <3>1. i + 1 <= j + 1
      BY <1>8, <2>1
    <3> QED BY <1>2, <2>1, <3>1 DEF QueueInOrder
  <2>2. CASE Old(i) /\ \E y : New(j, y)
    <3>1. hop <= q2[i][2] /\ q2[i][2] <= hop + 1 /\ q2[i][2] \in 0..MaxHops
      BY <1>5, <2>2
    <3>2. q2[j][2] = hop + 1
      BY <1>6, <2>2
    <3> QED BY <1>3, <3>1, <3>2, LimitsTyped
  <2>3. CASE (\E x : New(i, x)) /\ \E y : New(j, y)
    <3>1. q2[i][2] = hop + 1 /\ q2[j][2] = hop + 1 /\ hop \in Int
      BY <1>3, <1>6, <2>3, LimitsTyped
    <3> QED BY <3>1
  <2>4. ~((\E x : New(i, x)) /\ Old(j))
    BY <1>4, <1>8
  <2> HIDE DEF Old, New
  <2> QED BY <1>1, <2>1, <2>2, <2>3, <2>4
<1>9. ASSUME NEW i \in 1..Len(q2), NEW j \in 1..Len(q2), q2[i][1] = q2[j][1]
      PROVE  i = j
  <2>1. CASE Old(i) /\ Old(j)
    BY <1>2, <1>9, <2>1 DEF QueueInOrder
  <2>2. CASE Old(i) /\ \E y : New(j, y)
    BY <1>5, <1>6, <1>9, <2>2
  <2>3. CASE (\E x : New(i, x)) /\ Old(j)
    BY <1>5, <1>6, <1>9, <2>3
  <2>4. CASE (\E x : New(i, x)) /\ \E y : New(j, y)
    <3>1. PICK x : New(i, x)
      BY <2>4
    <3>2. PICK y : New(j, y)
      BY <2>4
    <3>3. order[x] = order[y]
      BY <1>6, <1>9, <3>1, <3>2
    <3> QED BY <1>4, <3>1, <3>2, <3>3
  <2> HIDE DEF Old, New
  <2> QED BY <1>1, <2>1, <2>2, <2>3, <2>4
<1> QED BY <1>1, <1>7, <1>8, <1>9 DEF QueueInOrder

LEMMA VisitedStaysInOrder ==
  ASSUME NEW W, NEW links, NEW strong, NEW seeds, NEW q, NEW v, NEW c,
         NEW q2, NEW v2, NEW c2, NEW current, NEW hop, NEW found, NEW order,
         Graph(links, strong), Reaches(W, seeds, links),
         Explored(W, links, strong, seeds, q, v, c),
         Turning(links, strong, seeds, q, v, c, q2, v2, c2, current, hop, found, order)
  PROVE  VisitedInOrder(W, links, seeds, q2, v2)
<1>1. VisitedInOrder(W, links, seeds, q, v)
  BY DEF Explored
<1>2. /\ current \in v /\ hop \in 0..MaxHops /\ At(W, current, hop)
      /\ Inner(W, current) <=> hop < MaxHops
      /\ \A i \in 1..Len(q) : hop <= q[i][2] /\ q[i][2] <= hop + 1 /\ q[i][2] \in 0..MaxHops
      /\ \A x \in found : x \in links[current] /\ x \in W[hop + 1] /\ hop < MaxHops
  BY CurrentIsNearest
<1>3. v2 \ Waiting(q2) = (v \ Waiting(q)) \union {current}
  BY WaitingAfter
<1>4. /\ v2 = v \union found /\ 1 \in 1..Len(q) /\ q[1][2] = hop
      /\ found = IF hop < MaxHops THEN links[current] ELSE {}
  BY DEF Turning
<1>5. found \subseteq W[MaxHops]
  <2> SUFFICES ASSUME NEW x \in found PROVE x \in W[MaxHops]
    OBVIOUS
  <2>1. hop + 1 \in Nat /\ MaxHops \in Nat /\ hop + 1 <= MaxHops
    BY <1>2, LimitsTyped
  <2>2. W[hop + 1] \subseteq W[MaxHops]
    BY <2>1, ReachGrows
  <2> QED BY <1>2, <2>2
<1>6. QueueInOrder(W, q2, v2)
  BY QueueStaysInOrder
<1>7. \A i \in 1..Len(q2) : q2[i][2] \in Nat /\ hop <= q2[i][2]
  <2>1. \A k \in 1..Len(q2) :
          \/ k \in 1..(Len(q) - 1) /\ k + 1 \in 1..Len(q) /\ q2[k] = q[k + 1]
          \/ \E i \in 1..Len(order) : k = Len(q) - 1 + i /\ q2[k] = <<order[i], hop + 1>>
    BY QueueAfter
  <2>2. ASSUME NEW k \in 1..Len(q2)
        PROVE  q2[k][2] \in Nat /\ hop <= q2[k][2]
    <3>1. CASE k \in 1..(Len(q) - 1) /\ k + 1 \in 1..Len(q) /\ q2[k] = q[k + 1]
      BY <1>2, <3>1, LimitsTyped
    <3>2. CASE \E i \in 1..Len(order) : k = Len(q) - 1 + i /\ q2[k] = <<order[i], hop + 1>>
      <4>1. q2[k][2] = hop + 1
        BY <3>2
      <4> QED BY <1>2, <4>1, LimitsTyped
    <3> QED BY <2>1, <3>1, <3>2
  <2> QED BY <2>2
<1>8. ASSUME NEW m \in v2 \ Waiting(q2)
      PROVE  \A i \in 1..Len(q2) : m \in W[q2[i][2]]
  <2>1. m \in W[hop]
    <3>1. CASE m = current
      BY <1>2, <3>1 DEF At
    <3>2. CASE m # current
      <4>1. m \in v \ Waiting(q)
        BY <1>3, <1>8, <3>2
      <4> QED BY <1>1, <1>4, <4>1 DEF VisitedInOrder
    <3> QED BY <3>1, <3>2
  <2>2. TAKE i \in 1..Len(q2)
  <2>3. hop \in Nat /\ q2[i][2] \in Nat /\ hop <= q2[i][2]
    BY <1>2, <1>7, LimitsTyped
  <2>4. W[hop] \subseteq W[q2[i][2]]
    BY <2>3, ReachGrows
  <2> QED BY <2>1, <2>4
<1>9. ASSUME NEW m \in v2 \ Waiting(q2), Inner(W, m)
      PROVE  links[m] \subseteq v2
  <2>1. CASE m = current
    BY <1>2, <1>4, <1>9, <2>1
  <2>2. CASE m # current
    <3>1. m \in v \ Waiting(q)
      BY <1>3, <1>9, <2>2
    <3> QED BY <1>1, <1>4, <1>9, <3>1 DEF VisitedInOrder
  <2> QED BY <2>1, <2>2
<1>10. seeds \subseteq v2 /\ v2 \subseteq W[MaxHops]
  BY <1>1, <1>4, <1>5 DEF VisitedInOrder
<1> QED BY <1>8, <1>9, <1>10 DEF VisitedInOrder

LEMMA HigherOfUnits ==
  ASSUME NEW a \in Unit, NEW b \in Unit
  PROVE  /\ Higher(a, b) = a \/ Higher(a, b) = b
         /\ Higher(a, b) >= a /\ Higher(a, b) >= b /\ Higher(a, b) \in Unit
         /\ \A d \in Unit : a >= d => Higher(a, b) >= d
BY DEF Higher, Unit

LEMMA CandidatesStayInOrder ==
  ASSUME NEW W, NEW links, NEW strong, NEW seeds, NEW q, NEW v, NEW c,
         NEW q2, NEW v2, NEW c2, NEW current, NEW hop, NEW found, NEW order,
         Graph(links, strong), Reaches(W, seeds, links),
         Explored(W, links, strong, seeds, q, v, c),
         Turning(links, strong, seeds, q, v, c, q2, v2, c2, current, hop, found, order)
  PROVE  CandidatesInOrder(W, links, strong, seeds, q2, v2, c2)
<1> DEFINE Nearest(n) == At(W, n, c2[n].hop_distance)
           Attained(n) == \E m \in links[n] : Inner(W, m) /\ c2[n].edge_strength = strong[<<m, n>>]
           Strong(n) == \A m \in links[n] \ Waiting(q2) :
                          m \in v2 /\ Inner(W, m) => c2[n].edge_strength >= strong[<<m, n>>]
<1>1. VisitedInOrder(W, links, seeds, q, v) /\ CandidatesInOrder(W, links, strong, seeds, q, v, c)
  BY DEF Explored
<1>2. /\ current \in v /\ current \in Node /\ hop \in 0..MaxHops /\ At(W, current, hop)
      /\ Inner(W, current) <=> hop < MaxHops
      /\ \A x \in found : /\ x \in links[current] /\ current \in links[x] /\ x \in Node
                          /\ x \in W[hop + 1] /\ hop < MaxHops
      /\ \A x \in found \ v : At(W, x, hop + 1)
  BY CurrentIsNearest
<1>3. v2 \ Waiting(q2) = (v \ Waiting(q)) \union {current}
  BY WaitingAfter
<1>4. /\ v2 = v \union found
      /\ found = IF hop < MaxHops THEN links[current] ELSE {}
      /\ DOMAIN c2 = DOMAIN c \union (found \ seeds)
      /\ \A n \in DOMAIN c2 :
           /\ n \notin found => c2[n] = c[n]
           /\ n \in found => c2[n] \in Candidate
           /\ n \in found \ DOMAIN c => /\ c2[n].edge_strength = strong[<<current, n>>]
                                        /\ c2[n].hop_distance = hop + 1
           /\ n \in found \intersect DOMAIN c =>
                /\ c2[n].edge_strength = Higher(c[n].edge_strength, strong[<<current, n>>])
                /\ c2[n].hop_distance = Lower(c[n].hop_distance, hop + 1)
  BY DEF Turning
<1>5. DOMAIN c = v \ seeds /\ seeds \subseteq v
  BY <1>1 DEF CandidatesInOrder, VisitedInOrder
<1>6. DOMAIN c2 = v2 \ seeds
  BY <1>4, <1>5
<1>7. \A n \in DOMAIN c :
        /\ c[n] \in Candidate /\ At(W, n, c[n].hop_distance)
        /\ c[n].edge_strength \in Unit /\ c[n].hop_distance \in 1..MaxHops
        /\ \E m \in links[n] : Inner(W, m) /\ c[n].edge_strength = strong[<<m, n>>]
        /\ \A m \in links[n] \ Waiting(q) :
             m \in v /\ Inner(W, m) => c[n].edge_strength >= strong[<<m, n>>]
  BY <1>1, CandidateFields DEF CandidatesInOrder
<1>8. \A n \in found : strong[<<current, n>>] \in Unit /\ n \in links[current]
  BY <1>2 DEF Graph
<1>9. v \subseteq Node /\ \A m \in v : \A n \in links[m] : m \in links[n] /\ n \in Node
                                                 /\ \A x \in links[n] : n \in links[x]
  <2>1. v \subseteq Node
    BY <1>1, LimitsTyped DEF VisitedInOrder, Reaches
  <2> QED BY <2>1 DEF Graph
<1>10. ASSUME NEW n \in DOMAIN c2, n \notin found
       PROVE  c2[n] \in Candidate /\ Nearest(n) /\ Attained(n) /\ Strong(n)
  <2>1. n \in DOMAIN c /\ c2[n] = c[n]
    BY <1>4, <1>10
  <2>2. ASSUME NEW m \in links[n], m \notin Waiting(q2), m \in v2, Inner(W, m)
        PROVE  c2[n].edge_strength >= strong[<<m, n>>]
    <3>1. CASE m = current
      <4>1. n \in v /\ n \in links[current]
        BY <1>5, <1>9, <2>1, <2>2, <3>1
      <4> QED BY <1>2, <1>4, <1>10, <2>2, <3>1, <4>1
    <3>2. CASE m # current
      <4>1. m \in v \ Waiting(q)
        BY <1>3, <2>2, <3>2
      <4> QED BY <1>7, <2>1, <2>2, <4>1
    <3> QED BY <3>1, <3>2
  <2> QED BY <1>7, <2>1, <2>2
<1>11. ASSUME NEW n \in found \ DOMAIN c, n \in DOMAIN c2
       PROVE  c2[n] \in Candidate /\ Nearest(n) /\ Attained(n) /\ Strong(n)
  <2>1. n \notin v
    BY <1>5, <1>6, <1>11
  <2>2. /\ c2[n] \in Candidate
        /\ c2[n].edge_strength = strong[<<current, n>>] /\ c2[n].hop_distance = hop + 1
    BY <1>4, <1>11
  <2>3. Nearest(n)
    BY <1>2, <1>11, <2>1, <2>2
  <2>4. Attained(n)
    BY <1>2, <1>11, <2>2
  <2>5. ASSUME NEW m \in links[n], m \notin Waiting(q2), m \in v2, Inner(W, m)
        PROVE  c2[n].edge_strength >= strong[<<m, n>>]
    <3>1. m = current
      <4> SUFFICES ASSUME m # current PROVE FALSE
        OBVIOUS
      <4>1. m \in v \ Waiting(q)
        BY <1>3, <2>5
      <4>2. links[m] \subseteq v
        BY <1>1, <2>5, <4>1 DEF VisitedInOrder
      <4>3. n \in links[m]
        BY <1>2, <1>11, <2>5 DEF Graph
      <4> QED BY <2>1, <4>2, <4>3
    <3> QED BY <1>8, <2>2, <3>1 DEF Unit
  <2> QED BY <2>2, <2>3, <2>4, <2>5
<1>12. ASSUME NEW n \in found \intersect DOMAIN c, n \in DOMAIN c2
       PROVE  c2[n] \in Candidate /\ Nearest(n) /\ Attained(n) /\ Strong(n)
  <2>1. /\ c2[n] \in Candidate
        /\ c2[n].edge_strength = Higher(c[n].edge_strength, strong[<<current, n>>])
        /\ c2[n].hop_distance = Lower(c[n].hop_distance, hop + 1)
    BY <1>4, <1>12
  <2>2. /\ At(W, n, c[n].hop_distance) /\ c[n].hop_distance \in 1..MaxHops
        /\ c[n].edge_strength \in Unit /\ strong[<<current, n>>] \in Unit
    BY <1>7, <1>8, <1>12
  <2>3. c2[n].hop_distance = c[n].hop_distance
    <3>1. ~(hop + 1 < c[n].hop_distance)
      <4>1. hop + 1 \in Nat /\ n \in W[hop + 1]
        BY <1>2, <1>12, LimitsTyped
      <4> QED BY <2>2, <4>1 DEF At
    <3>2. hop \in Int /\ c[n].hop_distance \in Int
      BY <1>2, <2>2, LimitsTyped
    <3>3. c[n].hop_distance < hop + 1 \/ c[n].hop_distance = hop + 1
      BY <3>1, <3>2
    <3> QED BY <2>1, <3>3 DEF Lower
  <2>4. /\ \/ c2[n].edge_strength = c[n].edge_strength
           \/ c2[n].edge_strength = strong[<<current, n>>]
        /\ c2[n].edge_strength >= strong[<<current, n>>]
        /\ \A d \in Unit : c[n].edge_strength >= d => c2[n].edge_strength >= d
    BY <2>1, <2>2, HigherOfUnits
  <2>5. Attained(n)
    <3>1. CASE c2[n].edge_strength = c[n].edge_strength
      BY <1>7, <1>12, <3>1
    <3>2. CASE c2[n].edge_strength = strong[<<current, n>>]
      BY <1>2, <1>12, <3>2
    <3> QED BY <2>4, <3>1, <3>2
  <2>6. ASSUME NEW m \in links[n], m \notin Waiting(q2), m \in v2, Inner(W, m)
        PROVE  c2[n].edge_strength >= strong[<<m, n>>]
    <3>1. CASE m = current
      BY <2>4, <3>1
    <3>2. CASE m # current
      <4>1. m \in v \ Waiting(q)
        BY <1>3, <2>6, <3>2
      <4>2. c[n].edge_strength >= strong[<<m, n>>]
        BY <1>7, <1>12, <2>6, <4>1
      <4>3. strong[<<m, n>>] \in Unit
        <5>1. n \in Node
          BY <1>2, <1>12
        <5> QED BY <2>6, <5>1 DEF Graph
      <4> QED BY <2>4, <4>2, <4>3
    <3> QED BY <3>1, <3>2
  <2> QED BY <2>1, <2>2, <2>3, <2>5, <2>6
<1> HIDE DEF Nearest, Attained, Strong
<1>13. \A n \in DOMAIN c2 : c2[n] \in Candidate /\ Nearest(n) /\ Attained(n) /\ Strong(n)
  BY <1>10, <1>11, <1>12
<1> USE DEF Nearest, Attained, Strong
<1> QED BY <1>6, <1>13 DEF CandidatesInOrder

LEMMA ExploreStarts ==
  ASSUME NEW W, NEW links, NEW strong, NEW seeds, NEW q, NEW c, NEW order,
         Reaches(W, seeds, links), DOMAIN c = {},
         Len(q) \in Nat,
         \A i \in 1..Len(q) : q[i] = <<order[i], 0>> /\ order[i] \in seeds,
         \A i, j \in 1..Len(q) : order[i] = order[j] => i = j,
         \A x \in seeds : \E i \in 1..Len(q) : order[i] = x
  PROVE  Explored(W, links, strong, seeds, q, seeds, c)
<1>1. \A i \in 1..Len(q) : q[i][1] = order[i] /\ q[i][2] = 0
  OBVIOUS
<1>2. 0 \in 0..MaxHops /\ 0 \in Nat /\ MaxHops \in Nat /\ 0 <= MaxHops
  BY LimitsTyped
<1>3. W[0] = seeds /\ W[0] \subseteq W[MaxHops]
  <2>1. W[0] \subseteq W[MaxHops]
    BY <1>2, ReachGrows
  <2> QED BY <2>1 DEF Reaches
<1>4. \A x \in seeds : At(W, x, 0)
  BY <1>3 DEF At
<1>5. QueueInOrder(W, q, seeds)
  BY <1>1, <1>2, <1>4 DEF QueueInOrder
<1>6. seeds \ Waiting(q) = {}
  BY <1>1 DEF Waiting
<1>7. VisitedInOrder(W, links, seeds, q, seeds)
  BY <1>3, <1>6 DEF VisitedInOrder
<1>8. CandidatesInOrder(W, links, strong, seeds, q, seeds, c)
  BY DEF CandidatesInOrder
<1> QED BY <1>5, <1>7, <1>8 DEF Explored

LEMMA GreatestIs ==
  ASSUME NEW S, NEW m \in S, \A x \in S : m >= x /\ x \in Int
  PROVE  Max(S) = m
<1>1. Max(S) \in S /\ \A x \in S : Max(S) >= x
  BY DEF Max
<1> QED BY <1>1

LEMMA LeastIs ==
  ASSUME NEW S, NEW m \in S, \A x \in S : m <= x /\ x \in Int
  PROVE  Min(S) = m
<1>1. Min(S) \in S /\ \A x \in S : Min(S) <= x
  BY DEF Min
<1> QED BY <1>1

(* With nothing left in the queue, the nodes in reach are visited and the  *)
(* candidates have their distance and their strongest edge of all.         *)
Exactly(W, links, strong, seeds, v, c) ==
  /\ v = W[MaxHops] /\ DOMAIN c = W[MaxHops] \ seeds
  /\ \A n \in DOMAIN c :
       /\ n \in Node /\ MaxHops > 0
       /\ At(W, n, c[n].hop_distance) /\ c[n].hop_distance \in 1..MaxHops
       /\ c[n].edge_strength =
            Max({strong[<<m, n>>] : m \in links[n] \intersect W[MaxHops - 1]})

LEMMA ExploreEnds ==
  ASSUME NEW W, NEW links, NEW strong, NEW seeds, NEW q, NEW v, NEW c,
         Graph(links, strong), Reaches(W, seeds, links),
         Explored(W, links, strong, seeds, q, v, c), q = <<>>
  PROVE  Exactly(W, links, strong, seeds, v, c)
<1>1. Len(q) = 0 /\ Waiting(q) = {}
  BY DEF Waiting
<1>2. MaxHops \in Nat /\ W \in [Nat -> SUBSET Node]
  BY LimitsTyped DEF Reaches
<1>3. \A k \in 0..MaxHops : W[k] \subseteq v
  <2>1. MaxHops \in 0..MaxHops /\ \A i \in 1..Len(q) : MaxHops <= q[i][2]
    BY <1>1, <1>2
  <2>2. /\ links \in [Node -> SUBSET Node]
        /\ QueueInOrder(W, q, v) /\ VisitedInOrder(W, links, seeds, q, v)
    BY DEF Graph, Explored
  <2> QED BY <2>1, <2>2, NearVisited
<1>4. v = W[MaxHops]
  <2>1. MaxHops \in 0..MaxHops
    BY <1>2
  <2>2. v \subseteq W[MaxHops]
    BY DEF Explored, VisitedInOrder
  <2> QED BY <1>3, <2>1, <2>2
<1>5. CandidatesInOrder(W, links, strong, seeds, q, v, c)
  BY DEF Explored
<1>6. ASSUME NEW n \in DOMAIN c
      PROVE  /\ n \in Node /\ MaxHops > 0
             /\ At(W, n, c[n].hop_distance) /\ c[n].hop_distance \in 1..MaxHops
             /\ c[n].edge_strength =
                  Max({strong[<<m, n>>] : m \in links[n] \intersect W[MaxHops - 1]})
  <2>1. n \in Node
    BY <1>2, <1>4, <1>5, <1>6 DEF CandidatesInOrder
  <2>2. At(W, n, c[n].hop_distance) /\ c[n].hop_distance \in 1..MaxHops
    BY <1>5, <1>6, CandidateFields DEF CandidatesInOrder
  <2>3. PICK m \in links[n] : Inner(W, m) /\ c[n].edge_strength = strong[<<m, n>>]
    BY <1>5, <1>6 DEF CandidatesInOrder
  <2>4. MaxHops > 0 /\ m \in W[MaxHops - 1] /\ MaxHops - 1 \in 0..MaxHops
    BY <1>2, <2>3 DEF Inner
  <2>5. \A x \in links[n] \intersect W[MaxHops - 1] :
          c[n].edge_strength >= strong[<<x, n>>]
    <3> TAKE x \in links[n] \intersect W[MaxHops - 1]
    <3>1. x \in v /\ Inner(W, x)
      BY <1>3, <2>4 DEF Inner
    <3>2. \A y \in links[n] \ Waiting(q) :
            y \in v /\ Inner(W, y) => c[n].edge_strength >= strong[<<y, n>>]
      BY <1>5, <1>6 DEF CandidatesInOrder
    <3> QED BY <1>1, <3>1, <3>2
  <2>6. \A x \in links[n] : strong[<<x, n>>] \in Int
    <3>1. \A x \in links[n] : /\ strong[<<n, x>>] \in Unit
                              /\ strong[<<n, x>>] = strong[<<x, n>>]
      <4> TAKE x \in links[n]
      <4> QED BY <2>1, Zenon DEF Graph
    <3>2. \A u \in Unit : u \in Int
      BY DEF Unit
    <3> QED BY <3>1, <3>2, Zenon
  <2> DEFINE weights == {strong[<<x, n>>] : x \in links[n] \intersect W[MaxHops - 1]}
  <2>7. c[n].edge_strength \in weights
    BY <2>3, <2>4
  <2>8. \A w \in weights : c[n].edge_strength >= w /\ w \in Int
    BY <2>5, <2>6
  <2>9. Max(weights) = c[n].edge_strength
    <3> HIDE DEF weights
    <3> QED BY <2>7, <2>8, GreatestIs
  <2> QED BY <2>1, <2>2, <2>4, <2>9
<1>7. DOMAIN c = W[MaxHops] \ seeds
  BY <1>4, <1>5 DEF CandidatesInOrder
<1> QED BY <1>4, <1>6, <1>7 DEF Exactly

-----------------------------------------------------------------------------
(* The expansion of a recall is such a search *)

StrongLinks == [p \in Node \X Node |-> Strongest(p[1], p[2])]

Expansion ==
  recall \in {"expanding", "ranked", "done"} =>
    \E W : /\ Reaches(W, Seeds, Links)
           /\ Explored(W, Links, StrongLinks, Seeds, queue, visited, candidates)

LEMMA LinksAreGraph ==
  ASSUME request \in Request
  PROVE  Graph(Links, StrongLinks)
<1>1. Links \in [Node -> SUBSET Node]
  BY DEF Links
<1>2. ASSUME NEW n \in Node, NEW m \in Links[n]
      PROVE  /\ n \in Links[m]
             /\ StrongLinks[<<n, m>>] \in Unit
             /\ StrongLinks[<<n, m>>] = StrongLinks[<<m, n>>]
  <2>1. m \in Neighbors(n)
    BY <1>2 DEF Links
  <2>2. /\ Strongest(n, m) \in Unit
        /\ Strongest(n, m) = Strongest(m, n)
        /\ n \in Neighbors(m) /\ m \in Node
    BY <2>1, StrongestTyped
  <2>3. StrongLinks[<<n, m>>] = Strongest(n, m) /\ StrongLinks[<<m, n>>] = Strongest(m, n)
    BY <2>2 DEF StrongLinks
  <2> QED BY <2>2, <2>3 DEF Links
<1> QED BY <1>1, <1>2 DEF Graph

(* The graph is that of the request, the seeds are the hits. *)
LEMMA GraphKept ==
  ASSUME request' = request, vector' = vector
  PROVE  Links' = Links /\ StrongLinks' = StrongLinks /\ Seeds' = Seeds
<1>1. \A n, m : EdgesBetween(n, m)' = EdgesBetween(n, m)
  BY DEF EdgesBetween
<1>2. \A n : Neighbors(n)' = Neighbors(n)
  BY <1>1 DEF Neighbors
<1>3. \A n, m : Strongest(n, m)' = Strongest(n, m)
  BY <1>1 DEF Strongest
<1>4. Links' = Links
  BY <1>2 DEF Links
<1>5. StrongLinks' = StrongLinks
  BY <1>3 DEF StrongLinks
<1>6. Seeds' = Seeds
  BY DEF Seeds, SeedNodeIds
<1> QED BY <1>4, <1>5, <1>6

LEMMA SearchStartsExpansion ==
  ASSUME RecallBase, Search
  PROVE  Expansion'
<1>1. request \in Request /\ request' = request
  BY DEF RecallBase, RecallTypeOK, CallTypeOK, Search
<1>2. PICK page \in VectorPage :
        /\ vector' = VectorHits(page)
        /\ visited' = SeedNodeIds(VectorHits(page))
        /\ \E order \in SetToSeqs(SeedNodeIds(VectorHits(page))) :
             queue' = [k \in DOMAIN order |-> <<order[k], 0>>]
  BY DEF Search
<1>3. PICK order \in SetToSeqs(SeedNodeIds(VectorHits(page))) :
        queue' = [k \in DOMAIN order |-> <<order[k], 0>>]
  BY <1>2
<1>4. Seeds' = visited' /\ Seeds' = SeedNodeIds(VectorHits(page)) /\ Seeds' \subseteq Node
  <2>1. Seeds' = SeedNodeIds(VectorHits(page))
    BY <1>1, <1>2 DEF Seeds, SeedNodeIds
  <2> QED BY <1>1, <1>2, <2>1, HitsTyped
<1>5. /\ DOMAIN candidates' = {}
      /\ Len(queue') \in Nat
      /\ \A i \in 1..Len(queue') : queue'[i] = <<order[i], 0>> /\ order[i] \in Seeds'
      /\ \A i, j \in 1..Len(queue') : order[i] = order[j] => i = j
      /\ \A x \in Seeds' : \E i \in 1..Len(queue') : order[i] = x
  <2>1. order \in SetToSeqs(Seeds') /\ IsFiniteSet(Seeds')
    BY <1>3, <1>4, NodesFinite
  <2>2. /\ Len(order) \in Nat /\ DOMAIN order = 1..Len(order)
        /\ \A i \in 1..Len(order) : order[i] \in Seeds'
        /\ \A i, j \in 1..Len(order) : order[i] = order[j] => i = j
        /\ \A x \in Seeds' : \E i \in 1..Len(order) : order[i] = x
    BY <2>1, Ordered
  <2>3. Len(queue') = Len(order) /\ \A i \in 1..Len(queue') : queue'[i] = <<order[i], 0>>
    BY <1>3, <2>2
  <2>4. DOMAIN candidates' = {}
    BY DEF RecallBase, Search
  <2> QED BY <2>2, <2>3, <2>4
<1>6. \E W : Reaches(W, Seeds', Links')
  <2>1. Links' \in [Node -> SUBSET Node]
    BY DEF Links
  <2> QED BY <1>4, <2>1, ReachExists
<1>7. PICK W : Reaches(W, Seeds', Links')
  BY <1>6
<1>8. Explored(W, Links', StrongLinks', Seeds', queue', visited', candidates')
  <2>1. Explored(W, Links', StrongLinks', Seeds', queue', Seeds', candidates')
    BY <1>5, <1>7, ExploreStarts
  <2> QED BY <1>4, <2>1
<1> QED BY <1>7, <1>8 DEF Expansion

LEMMA TurnedIsTurning ==
  ASSUME RecallTypeOK, NEW current, NEW hop, NEW found, NEW order,
         Turned(current, hop, found, order)
  PROVE  Turning(Links, StrongLinks, Seeds, queue, visited, candidates,
                 queue', visited', candidates', current, hop, found, order)
<1>1. request \in Request /\ queue \in Seq(request.nodes \X (0..MaxHops))
  BY DEF RecallTypeOK, CallTypeOK
<1>2. /\ queue # <<>> /\ current = queue[1][1] /\ hop = queue[1][2]
      /\ current \in request.nodes /\ hop \in 0..MaxHops
      /\ found = IF hop < MaxHops THEN Neighbors(current) ELSE {}
      /\ found \subseteq request.nodes
      /\ order \in Seq(found \ visited)
      /\ \A i, j \in 1..Len(order) : order[i] = order[j] => i = j
      /\ \A x \in found \ visited : \E i \in 1..Len(order) : order[i] = x
      /\ candidates' = [n \in DOMAIN candidates \union (found \ Seeds) |->
                          IF n \in found THEN Met(n, Strongest(current, n), hop + 1)
                          ELSE candidates[n]]
      /\ visited' = visited \union found
      /\ Len(queue') = Len(queue) - 1 + Len(order)
      /\ \A i \in 1..(Len(queue) - 1) : queue'[i] = queue[i + 1]
      /\ \A i \in 1..Len(order) : queue'[Len(queue) - 1 + i] = <<order[i], hop + 1>>
  BY DEF Turned
<1>3. Len(queue) \in Nat /\ Len(queue) >= 1 /\ Len(order) \in Nat
  <2>1. Len(queue) # 0 /\ Len(queue) \in Nat
    BY <1>1, <1>2, EmptySeq
  <2>2. Len(order) \in Nat
    BY <1>2
  <2> QED BY <2>1, <2>2
<1>4. \A i \in 1..Len(order) : order[i] \in found \ visited
  BY <1>2
<1>5. current \in Node /\ found \subseteq Node
  BY <1>1, <1>2, RequestTyped
<1>6. found = IF hop < MaxHops THEN Links[current] ELSE {}
  <2>1. Links[current] = Neighbors(current) \intersect Node
    BY <1>5 DEF Links
  <2>2. Neighbors(current) \subseteq Node
    BY <1>1, RequestTyped DEF Neighbors
  <2> QED BY <1>2, <2>1, <2>2
<1>7. DOMAIN candidates' = DOMAIN candidates \union (found \ Seeds)
  BY <1>2
<1>8. ASSUME NEW n \in DOMAIN candidates'
      PROVE  /\ n \notin found => candidates'[n] = candidates[n]
             /\ n \in found => candidates'[n] \in Candidate
             /\ n \in found \ DOMAIN candidates =>
                  /\ candidates'[n].edge_strength = StrongLinks[<<current, n>>]
                  /\ candidates'[n].hop_distance = hop + 1
             /\ n \in found \intersect DOMAIN candidates =>
                  /\ candidates'[n].edge_strength =
                       Higher(candidates[n].edge_strength, StrongLinks[<<current, n>>])
                  /\ candidates'[n].hop_distance = Lower(candidates[n].hop_distance, hop + 1)
  <2>1. candidates'[n] = IF n \in found THEN Met(n, Strongest(current, n), hop + 1)
                         ELSE candidates[n]
    BY <1>2, <1>8
  <2>2. CASE n \notin found
    BY <2>1, <2>2
  <2>3. CASE n \in found
    <3>1. n \in Neighbors(current) /\ hop + 1 \in 1..MaxHops
      BY <1>2, <2>3, LimitsTyped
    <3>2. Strongest(current, n) \in Unit /\ StrongLinks[<<current, n>>] = Strongest(current, n)
      <4>1. Strongest(current, n) \in Unit
        BY <1>1, <1>5, <3>1, StrongestTyped
      <4> QED BY <1>5, <2>3, <4>1 DEF StrongLinks
    <3> DEFINE entry == Met(n, StrongLinks[<<current, n>>], hop + 1)
    <3>3. /\ entry \in Candidate
          /\ n \notin DOMAIN candidates => /\ entry.edge_strength = StrongLinks[<<current, n>>]
                                           /\ entry.hop_distance = hop + 1
          /\ n \in DOMAIN candidates =>
               /\ entry.edge_strength =
                    Higher(candidates[n].edge_strength, StrongLinks[<<current, n>>])
               /\ entry.hop_distance = Lower(candidates[n].hop_distance, hop + 1)
      <4>1. StrongLinks[<<current, n>>] \in Unit
        BY <3>2
      <4> HIDE DEF StrongLinks
      <4> QED BY <3>1, <4>1, MetTyped
    <3>4. candidates'[n] = entry
      BY <2>1, <2>3, <3>2
    <3> HIDE DEF entry
    <3> QED BY <2>3, <3>3, <3>4
  <2> QED BY <2>2, <2>3
<1> QED BY <1>2, <1>3, <1>4, <1>6, <1>7, <1>8 DEF Turning

LEMMA ExpandKeepsExpansion ==
  ASSUME RecallBase, Expansion, Expand
  PROVE  Expansion'
<1>1. RecallTypeOK /\ request \in Request
  BY DEF RecallBase, RecallTypeOK, CallTypeOK
<1>2. PICK current, hop, found, order : Turned(current, hop, found, order)
  BY <1>1, ExpandTurns
<1>3. /\ request' = request /\ vector' = vector
  BY <1>2 DEF Turned
<1>4. Turning(Links, StrongLinks, Seeds, queue, visited, candidates,
              queue', visited', candidates', current, hop, found, order)
  BY <1>1, <1>2, TurnedIsTurning
<1>5. PICK W : /\ Reaches(W, Seeds, Links)
               /\ Explored(W, Links, StrongLinks, Seeds, queue, visited, candidates)
  <2>1. recall = "expanding"
    BY DEF Expand
  <2> QED BY <2>1 DEF Expansion
<1>6. Graph(Links, StrongLinks)
  BY <1>1, LinksAreGraph
<1>7. /\ QueueInOrder(W, queue', visited')
      /\ VisitedInOrder(W, Links, Seeds, queue', visited')
      /\ CandidatesInOrder(W, Links, StrongLinks, Seeds, queue', visited', candidates')
  <2>1. QueueInOrder(W, queue', visited')
    BY <1>4, <1>5, <1>6, QueueStaysInOrder
  <2>2. VisitedInOrder(W, Links, Seeds, queue', visited')
    BY <1>4, <1>5, <1>6, VisitedStaysInOrder
  <2>3. CandidatesInOrder(W, Links, StrongLinks, Seeds, queue', visited', candidates')
    BY <1>4, <1>5, <1>6, CandidatesStayInOrder
  <2> QED BY <2>1, <2>2, <2>3
<1>8. Links' = Links /\ StrongLinks' = StrongLinks /\ Seeds' = Seeds
  BY <1>3, GraphKept
<1>9. /\ Reaches(W, Seeds', Links')
      /\ Explored(W, Links', StrongLinks', Seeds', queue', visited', candidates')
  BY <1>5, <1>7, <1>8 DEF Explored
<1> QED BY <1>9 DEF Expansion

LEMMA ExpansionStandsStill ==
  ASSUME RecallBase, Expansion,
         SearchFails \/ MergeAndRank \/ AssembleMemoryPacket \/ UNCHANGED recallVars
  PROVE  Expansion'
<1>1. /\ request' = request /\ vector' = vector /\ queue' = queue
      /\ visited' = visited /\ candidates' = candidates
  BY DEF SearchFails, MergeAndRank, AssembleMemoryPacket, recallVars
<1>2. recall' \in {"expanding", "ranked", "done"} => recall \in {"expanding", "ranked", "done"}
  BY DEF SearchFails, MergeAndRank, AssembleMemoryPacket, recallVars
<1>3. Links' = Links /\ StrongLinks' = StrongLinks /\ Seeds' = Seeds
  BY <1>1, GraphKept
<1> SUFFICES ASSUME recall' \in {"expanding", "ranked", "done"}
             PROVE  \E W : /\ Reaches(W, Seeds', Links')
                           /\ Explored(W, Links', StrongLinks', Seeds', queue', visited', candidates')
  BY DEF Expansion
<1>4. PICK W : /\ Reaches(W, Seeds, Links)
               /\ Explored(W, Links, StrongLinks, Seeds, queue, visited, candidates)
  BY <1>2 DEF Expansion
<1> QED BY <1>1, <1>3, <1>4

LEMMA ExpansionIsExact ==
  ASSUME RecallBase, Expansion
  PROVE  ExpansionExact
<1> SUFFICES ASSUME recall \in {"ranked", "done"}
             PROVE  /\ DOMAIN candidates = Within[MaxHops] \ Seeds
                    /\ \A n \in DOMAIN candidates :
                         /\ candidates[n].hop_distance = Distance(n)
                         /\ candidates[n].edge_strength =
                              Max({Strongest(m, n) : m \in Neighbors(n) \intersect Within[MaxHops - 1]})
  BY DEF ExpansionExact
<1>1. RecallTypeOK /\ request \in Request /\ queue = <<>>
  BY DEF RecallBase, RecallTypeOK, CallTypeOK
<1>2. PICK W : /\ Reaches(W, Seeds, Links)
               /\ Explored(W, Links, StrongLinks, Seeds, queue, visited, candidates)
  BY DEF Expansion
<1>3. W = Within
  <2>1. Seeds \subseteq Node /\ request.nodes \subseteq Node
    BY <1>1, SeedsTyped
  <2>2. Reaches(Within, Seeds, Links)
    BY <2>1, WithinSolves
  <2> QED BY <1>2, <2>2, ReachUnique
<1>4. Graph(Links, StrongLinks)
  BY <1>1, LinksAreGraph
<1>5. /\ DOMAIN candidates = Within[MaxHops] \ Seeds
      /\ \A n \in DOMAIN candidates :
           /\ n \in Node /\ MaxHops > 0
           /\ At(Within, n, candidates[n].hop_distance)
           /\ candidates[n].hop_distance \in 1..MaxHops
           /\ candidates[n].edge_strength =
                Max({StrongLinks[<<m, n>>] : m \in Links[n] \intersect Within[MaxHops - 1]})
  <2>1. Exactly(W, Links, StrongLinks, Seeds, visited, candidates)
    BY <1>1, <1>2, <1>4, ExploreEnds
  <2>2. Exactly(Within, Links, StrongLinks, Seeds, visited, candidates)
    BY <1>3, <2>1
  <2> QED BY <2>2 DEF Exactly
<1>6. ASSUME NEW n \in DOMAIN candidates
      PROVE  candidates[n].hop_distance = Distance(n)
  <2> DEFINE D == {k \in 0..MaxHops : n \in Within[k]}
             d == candidates[n].hop_distance
  <2>1. At(Within, n, d) /\ d \in 1..MaxHops /\ MaxHops \in Nat
    BY <1>5, LimitsTyped
  <2>2. d \in D
    BY <2>1 DEF At
  <2>3. \A k \in D : k >= d /\ k \in Int
    BY <2>1 DEF At
  <2>4. \A k \in D : d <= k /\ k \in Int
    BY <2>1, <2>3
  <2>5. Min(D) = d
    <3> HIDE DEF D, d
    <3> QED BY <2>2, <2>4, LeastIs
  <2> QED BY <2>5 DEF Distance
<1>7. ASSUME NEW n \in DOMAIN candidates
      PROVE  candidates[n].edge_strength =
               Max({Strongest(m, n) : m \in Neighbors(n) \intersect Within[MaxHops - 1]})
  <2>1. n \in Node /\ Links[n] = Neighbors(n)
    <3>1. n \in Node
      BY <1>5
    <3>2. Neighbors(n) \subseteq Node
      BY <1>1, RequestTyped DEF Neighbors
    <3> QED BY <3>1, <3>2 DEF Links
  <2>2. ASSUME NEW m \in Links[n]
        PROVE  StrongLinks[<<m, n>>] = Strongest(m, n)
    <3>1. m \in Node
      BY <2>1, <2>2 DEF Links
    <3> QED BY <2>1, <3>1 DEF StrongLinks
  <2>3. {StrongLinks[<<m, n>>] : m \in Links[n] \intersect Within[MaxHops - 1]}
          = {Strongest(m, n) : m \in Neighbors(n) \intersect Within[MaxHops - 1]}
    BY <2>1, <2>2
  <2> QED BY <1>5, <2>3
<1> QED BY <1>5, <1>6, <1>7

-----------------------------------------------------------------------------
(* What is recalled answers the query, and the lessons of a selection *)

(* Nodes that are ranked answer the query. *)
LEMMA RankedAnswer ==
  ASSUME RecallBase, Expansion, recall = "done", NEW n \in DOMAIN ranked
  PROVE  AnswersQuery(n)
<1>1. RecallTypeOK /\ request \in Request /\ n \in Node
  <2>1. RecallTypeOK /\ request \in Request /\ n \in request.nodes
    BY DEF RecallBase, RecallTypeOK, CallTypeOK, RankedTypeOK
  <2> QED BY <2>1, RequestTyped
<1>2. \/ LexicalScore(n) > 0
      \/ n \in DOMAIN vector /\ vector[n] > 0
      \/ n \in DOMAIN candidates /\ candidates[n].edge_strength > 0
  BY DEF RecallBase
<1>3. CASE n \in DOMAIN vector /\ vector[n] > 0
  BY <1>3 DEF RecallBase, AnswersQuery
<1>4. CASE n \in DOMAIN candidates /\ candidates[n].edge_strength > 0
  <2>1. PICK W : /\ Reaches(W, Seeds, Links)
                 /\ Explored(W, Links, StrongLinks, Seeds, queue, visited, candidates)
    BY DEF Expansion
  <2>2. PICK m \in Links[n] : candidates[n].edge_strength = StrongLinks[<<m, n>>]
    BY <1>4, <2>1 DEF Explored, CandidatesInOrder
  <2>3. m \in Neighbors(n) /\ m \in Node
    BY <1>1, <2>2 DEF Links
  <2>4. StrongLinks[<<m, n>>] = Strongest(m, n)
    BY <1>1, <2>3 DEF StrongLinks
  <2>5. n \in Within[MaxHops]
    <3>1. ExpansionExact
      BY ExpansionIsExact
    <3> QED BY <1>4, <3>1 DEF ExpansionExact
  <2> QED BY <1>4, <2>2, <2>3, <2>4, <2>5 DEF AnswersQuery
<1> QED BY <1>2, <1>3, <1>4 DEF AnswersQuery

(* Resting on one node that is selected counts more than all confidence. *)
LEMMA SupportCounts ==
  ASSUME NEW l \in Lesson, NEW k \in Lesson, NEW selected,
         Supporting[k] \intersect selected # {},
         Supporting[l] \intersect selected = {}
  PROVE  /\ Cardinality(Supporting[l] \intersect selected) = 0
         /\ Cardinality(Supporting[k] \intersect selected) \in Nat
         /\ Cardinality(Supporting[k] \intersect selected) >= 1
         /\ LessonConfidence[l] \in 0..100 /\ LessonConfidence[k] \in 0..100
<1>1. Supporting[k] \in SUBSET Node
  BY LessonAssumption
<1>2. IsFiniteSet(Supporting[k] \intersect selected)
  BY <1>1, NodesFinite
<1>3. Cardinality(Supporting[k] \intersect selected) \in Nat
  BY <1>2, FS_CardinalityType
<1>4. Cardinality(Supporting[k] \intersect selected) # 0
  BY <1>2, FS_EmptySet
<1>5. Cardinality(Supporting[l] \intersect selected) = 0
  BY FS_EmptySet
<1>6. LessonConfidence[l] \in 0..100 /\ LessonConfidence[k] \in 0..100
  BY LessonAssumption DEF Unit
<1> QED BY <1>3, <1>4, <1>5, <1>6

LEMMA LinkedScoresHigher ==
  ASSUME NEW l \in Lesson, NEW k \in Lesson, NEW selected,
         Supporting[k] \intersect selected # {},
         Supporting[l] \intersect selected = {}
  PROVE  ~(LessonScore(l, selected) >= LessonScore(k, selected)) /\ LessonScore(k, selected) > 0
<1> DEFINE a == Cardinality(Supporting[l] \intersect selected)
           b == Cardinality(Supporting[k] \intersect selected)
<1>1. /\ a = 0 /\ b \in Nat /\ b >= 1
      /\ LessonConfidence[l] \in 0..100 /\ LessonConfidence[k] \in 0..100
  BY SupportCounts
<1>2. \A x \in 0..100, y \in 0..100, n \in Nat :
        n >= 1 => /\ ~(60 * 0 * 100 + 40 * x >= 60 * n * 100 + 40 * y)
                  /\ 60 * n * 100 + 40 * y > 0
  OBVIOUS
<1>3. /\ LessonScore(l, selected) = 60 * a * 100 + 40 * LessonConfidence[l]
      /\ LessonScore(k, selected) = 60 * b * 100 + 40 * LessonConfidence[k]
  BY DEF LessonScore
<1>4. /\ ~(60 * 0 * 100 + 40 * LessonConfidence[l] >= 60 * b * 100 + 40 * LessonConfidence[k])
      /\ 60 * b * 100 + 40 * LessonConfidence[k] > 0
  <2> HIDE DEF a, b
  <2> QED BY <1>1, <1>2
<1>5. LessonScore(l, selected) = 60 * 0 * 100 + 40 * LessonConfidence[l]
  <2> HIDE DEF b
  <2> QED BY <1>1, <1>3
<1> HIDE DEF a, b
<1> QED BY <1>3, <1>4, <1>5

LEMMA SelectionLinked ==
  ASSUME request \in Request, NEW nodes, NEW chosen \in SelectLessons(nodes)
  PROVE  LinkedFirst(chosen, request.lessons, nodes)
<1> DEFINE scored == {l \in request.lessons : LessonScore(l, nodes) > 0}
           score  == [l \in request.lessons |-> LessonScore(l, nodes)]
<1>1. \A S, k, f : \A T \in Top(S, k, f) :
        T \subseteq S /\ \A t \in T, s \in S \ T : f[t] >= f[s]
  BY TopTaken
<1>2. chosen \subseteq scored /\ \A t \in chosen, s \in scored \ chosen : score[t] >= score[s]
  <2>1. chosen \in Top(scored, Clamp(LessonLimit, 1, 2), score)
    BY DEF SelectLessons
  <2> HIDE DEF scored, score
  <2> QED BY <1>1, <2>1
<1>3. request.lessons \subseteq Lesson
  BY RequestTyped
<1> SUFFICES ASSUME NEW l \in chosen, NEW k \in request.lessons \ chosen,
                    Supporting[k] \intersect nodes # {},
                    Supporting[l] \intersect nodes = {}
             PROVE  FALSE
  BY DEF LinkedFirst
<1>4. l \in request.lessons /\ l \in Lesson /\ k \in Lesson
  BY <1>2, <1>3
<1>5. ~(LessonScore(l, nodes) >= LessonScore(k, nodes)) /\ LessonScore(k, nodes) > 0
  BY <1>4, LinkedScoresHigher
<1>6. k \in scored \ chosen
  BY <1>5
<1>7. score[l] = LessonScore(l, nodes) /\ score[k] = LessonScore(k, nodes)
  BY <1>4
<1> HIDE DEF scored, score
<1> QED BY <1>2, <1>5, <1>6, <1>7

RecallInv ==
  /\ RecallBase
  /\ Expansion
  /\ recall = "done" => LinkedFirst(packet.lessons, request.lessons, packet.nodes)

LEMMA RecallInvInit == RecallInit => RecallInv
<1> SUFFICES ASSUME RecallInit PROVE RecallInv
  OBVIOUS
<1>1. RecallBase
  BY BaseInit
<1>2. recall = "searching"
  BY DEF RecallInit
<1> QED BY <1>1, <1>2 DEF RecallInv, Expansion

LEMMA RecallInvStep == RecallInv /\ [RecallNext]_recallVars => RecallInv'
<1> SUFFICES ASSUME RecallInv, [RecallNext]_recallVars
             PROVE  RecallInv'
  OBVIOUS
<1> DEFINE Lessons == recall = "done" =>
                        LinkedFirst(packet.lessons, request.lessons, packet.nodes)
<1>0. RecallBase /\ Expansion /\ Lessons
  BY DEF RecallInv
<1>1. CASE Search
  <2>1. RecallBase' /\ Expansion' /\ recall' = "expanding"
    BY <1>0, <1>1, SearchKeepsBase, SearchStartsExpansion DEF Search
  <2> QED BY <2>1 DEF RecallInv
<1>2. CASE Expand
  <2>1. RecallBase'
    BY <1>0, <1>2, ExpandKeepsBase
  <2>2. Expansion'
    BY <1>0, <1>2, ExpandKeepsExpansion
  <2>3. recall' = "expanding"
    BY <1>2 DEF Expand
  <2> QED BY <2>1, <2>2, <2>3 DEF RecallInv
<1>3. CASE MergeAndRank
  <2>1. RecallBase'
    BY <1>0, <1>3, RankKeepsBase
  <2>2. Expansion'
    BY <1>0, <1>3, ExpansionStandsStill
  <2>3. recall' = "ranked"
    BY <1>3 DEF MergeAndRank
  <2> QED BY <2>1, <2>2, <2>3 DEF RecallInv
<1>4. CASE AssembleMemoryPacket
  <2>1. RecallBase'
    BY <1>0, <1>4, AssembleKeepsBase
  <2>2. Expansion'
    BY <1>0, <1>4, ExpansionStandsStill
  <2>3. PICK core, related : Packed(core, related)
    BY <1>4, AssemblePacks
  <2>4. LinkedFirst(packet'.lessons, request'.lessons, packet'.nodes)
    <3>1. /\ packet'.lessons \in SelectLessons(core \union related)
          /\ packet'.nodes = core \union related /\ request' = request
      BY <2>3 DEF Packed
    <3>2. request \in Request
      BY <1>0 DEF RecallBase, RecallTypeOK, CallTypeOK
    <3>3. LinkedFirst(packet'.lessons, request.lessons, core \union related)
      BY <3>1, <3>2, SelectionLinked
    <3> QED BY <3>1, <3>3
  <2> QED BY <2>1, <2>2, <2>4 DEF RecallInv
<1>5. CASE SearchFails \/ UNCHANGED recallVars
  <2>1. RecallBase'
    BY <1>0, <1>5, RecallStandsStill
  <2>2. Expansion'
    BY <1>0, <1>5, ExpansionStandsStill
  <2>3. /\ packet' = packet /\ request' = request
        /\ recall' = "done" => recall = "done"
    BY <1>5 DEF SearchFails, recallVars
  <2>4. recall' = "done" => LinkedFirst(packet'.lessons, request'.lessons, packet'.nodes)
    BY <1>0, <2>3
  <2> QED BY <2>1, <2>2, <2>4 DEF RecallInv
<1> QED BY <1>1, <1>2, <1>3, <1>4, <1>5 DEF RecallNext

-----------------------------------------------------------------------------
(* The clustering, as a search of a graph: adj are the neighbors of each   *)
(* of the nodes V, s the stack, u the cluster that grows, m the nodes met, *)
(* and K the clusters that are closed.                                     *)

Mutual(V, adj) ==
  /\ adj \in [V -> SUBSET V]
  /\ \A x \in V : \A y \in adj[x] : x \in adj[y]

Distinct(s) == \A i, j \in 1..Len(s) : s[i] = s[j] => i = j

(* Every node but the first is a neighbor of an earlier one. *)
Grown(adj, c) ==
  \A i \in 1..Len(c) : i > 1 => \E j \in 1..Len(c) : j < i /\ c[i] \in adj[c[j]]

(* Each node that was met is in one place, and there once. *)
EachInItsPlace(V, s, u, m, K) ==
  /\ s \in Seq(V) /\ Distinct(s)
  /\ u \in Seq(V) /\ Distinct(u)
  /\ IsFiniteSet(K)
  /\ \A c \in K : c \in Seq(V) /\ c # <<>> /\ Distinct(c)
  /\ m = ToSet(s) \union ToSet(u) \union UNION {ToSet(c) : c \in K}
  /\ ToSet(s) \intersect ToSet(u) = {}
  /\ \A c \in K : ToSet(c) \intersect (ToSet(s) \union ToSet(u)) = {}
  /\ \A c, d \in K : c # d => ToSet(c) \intersect ToSet(d) = {}

(* Clusters grow over edges, and leave none behind. *)
GrownOverEdges(adj, s, u, K) ==
  /\ Grown(adj, u)
  /\ \A c \in K : Grown(adj, c) /\ \A x \in ToSet(c) : adj[x] \subseteq ToSet(c)
  /\ \A x \in ToSet(u) : adj[x] \subseteq ToSet(u) \union ToSet(s)
  /\ u = <<>> => Len(s) <= 1
  /\ u # <<>> => \A i \in 1..Len(s) : \E j \in 1..Len(u) : s[i] \in adj[u[j]]

Clustered(V, adj, s, u, m, K) ==
  EachInItsPlace(V, s, u, m, K) /\ GrownOverEdges(adj, s, u, K)

LEMMA ElementsOf ==
  ASSUME NEW S, NEW s \in Seq(S)
  PROVE  /\ Len(s) \in Nat /\ DOMAIN s = 1..Len(s)
         /\ ToSet(s) = {s[i] : i \in 1..Len(s)} /\ ToSet(s) \subseteq S
         /\ \A i \in 1..Len(s) : s[i] \in S
         /\ s = <<>> <=> Len(s) = 0
<1>1. Len(s) \in Nat /\ DOMAIN s = 1..Len(s) /\ \A i \in 1..Len(s) : s[i] \in S
  OBVIOUS
<1>2. s = <<>> <=> Len(s) = 0
  BY EmptySeq
<1> QED BY <1>1, <1>2 DEF ToSet

LEMMA NothingIn == ToSet(<<>>) = {} /\ Distinct(<<>>) /\ \A V : <<>> \in Seq(V)
<1>1. Len(<<>>) = 0 /\ DOMAIN <<>> = {}
  OBVIOUS
<1> QED BY <1>1, EmptySeq DEF ToSet, Distinct

LEMMA ClusteringStarts ==
  ASSUME NEW V, NEW adj, NEW m, NEW K, NEW n \in V \ m,
         Clustered(V, adj, <<>>, <<>>, m, K)
  PROVE  Clustered(V, adj, <<n>>, <<>>, m \union {n}, K)
<1>1. EachInItsPlace(V, <<>>, <<>>, m, K) /\ GrownOverEdges(adj, <<>>, <<>>, K)
  BY DEF Clustered
<1>2. <<n>> \in Seq(V) /\ Len(<<n>>) = 1 /\ ToSet(<<n>>) = {n} /\ Distinct(<<n>>)
  <2>1. <<n>> \in Seq(V) /\ Len(<<n>>) = 1 /\ <<n>>[1] = n /\ DOMAIN <<n>> = {1} /\ 1..1 = {1}
    OBVIOUS
  <2>2. ToSet(<<n>>) = {n}
    BY <2>1 DEF ToSet
  <2> QED BY <2>1, <2>2 DEF Distinct
<1>3. m = UNION {ToSet(c) : c \in K}
  BY <1>1, NothingIn DEF EachInItsPlace
<1>4. \A c \in K : n \notin ToSet(c)
  BY <1>3
<1>5. EachInItsPlace(V, <<n>>, <<>>, m \union {n}, K)
  BY <1>1, <1>2, <1>3, <1>4, NothingIn DEF EachInItsPlace
<1>6. GrownOverEdges(adj, <<n>>, <<>>, K)
  BY <1>1, <1>2, NothingIn DEF GrownOverEdges
<1> QED BY <1>5, <1>6 DEF Clustered

LEMMA ClusterCloses ==
  ASSUME NEW V, NEW adj, NEW u, NEW m, NEW K, u # <<>>,
         Clustered(V, adj, <<>>, u, m, K)
  PROVE  Clustered(V, adj, <<>>, <<>>, m, K \union {u})
<1>1. EachInItsPlace(V, <<>>, u, m, K) /\ GrownOverEdges(adj, <<>>, u, K)
  BY DEF Clustered
<1>2. EachInItsPlace(V, <<>>, <<>>, m, K \union {u})
  <2>1. IsFiniteSet(K \union {u})
    BY <1>1, FS_AddElement DEF EachInItsPlace
  <2>2. \A c \in K \union {u} : c \in Seq(V) /\ c # <<>> /\ Distinct(c)
    BY <1>1 DEF EachInItsPlace
  <2>3. m = UNION {ToSet(c) : c \in K \union {u}}
    BY <1>1, NothingIn DEF EachInItsPlace
  <2>4. \A c, d \in K \union {u} : c # d => ToSet(c) \intersect ToSet(d) = {}
    BY <1>1 DEF EachInItsPlace
  <2> QED BY <2>1, <2>2, <2>3, <2>4, NothingIn DEF EachInItsPlace
<1>3. GrownOverEdges(adj, <<>>, <<>>, K \union {u})
  <2>1. Len(<<>>) = 0
    OBVIOUS
  <2>2. Grown(adj, <<>>)
    BY <2>1 DEF Grown
  <2>3. \A x \in ToSet(u) : adj[x] \subseteq ToSet(u)
    BY <1>1, NothingIn DEF GrownOverEdges
  <2>4. \A c \in K \union {u} : Grown(adj, c) /\ \A x \in ToSet(c) : adj[x] \subseteq ToSet(c)
    BY <1>1, <2>3 DEF GrownOverEdges
  <2> QED BY <2>1, <2>2, <2>4, NothingIn DEF GrownOverEdges
<1> QED BY <1>2, <1>3 DEF Clustered

(* current is popped off the stack s and joins the cluster u; those of its *)
(* neighbors that are new are pushed.                                      *)
Visiting(V, adj, s, u, m, s2, u2, m2, current, order) ==
  /\ s \in Seq(V) /\ Distinct(s) /\ u \in Seq(V) /\ s2 \in Seq(V) /\ u2 \in Seq(V)
  /\ Len(s) \in Nat /\ Len(s) >= 1 /\ current = s[Len(s)]
  /\ Len(u) \in Nat /\ Len(u2) = Len(u) + 1 /\ u2[Len(u) + 1] = current
  /\ \A i \in 1..Len(u) : u2[i] = u[i]
  /\ Len(order) \in Nat
  /\ \A i \in 1..Len(order) : order[i] \in adj[current] \ m
  /\ \A i, j \in 1..Len(order) : order[i] = order[j] => i = j
  /\ \A x \in adj[current] \ m : \E i \in 1..Len(order) : order[i] = x
  /\ Len(s2) = Len(s) - 1 + Len(order)
  /\ \A i \in 1..(Len(s) - 1) : s2[i] = s[i]
  /\ \A i \in 1..Len(order) : s2[Len(s) - 1 + i] = order[i]
  /\ m2 = m \union adj[current]

LEMMA StackAfter ==
  ASSUME NEW V, NEW adj, NEW s, NEW u, NEW m, NEW s2, NEW u2, NEW m2,
         NEW current, NEW order,
         Visiting(V, adj, s, u, m, s2, u2, m2, current, order)
  PROVE  /\ Len(s2) \in Nat
         /\ \A k \in 1..Len(s2) :
              \/ k \in 1..(Len(s) - 1) /\ k \in 1..Len(s) /\ k # Len(s) /\ s2[k] = s[k]
              \/ \E i \in 1..Len(order) : k = Len(s) - 1 + i /\ s2[k] = order[i]
<1>1. /\ Len(s) \in Nat /\ Len(s) >= 1 /\ Len(order) \in Nat
      /\ Len(s2) = Len(s) - 1 + Len(order)
      /\ \A i \in 1..(Len(s) - 1) : s2[i] = s[i]
      /\ \A i \in 1..Len(order) : s2[Len(s) - 1 + i] = order[i]
  BY DEF Visiting
<1>2. ASSUME NEW k \in 1..Len(s2), ~(k \in 1..(Len(s) - 1))
      PROVE  \E i \in 1..Len(order) : k = Len(s) - 1 + i /\ s2[k] = order[i]
  <2>1. k - (Len(s) - 1) \in 1..Len(order) /\ k = Len(s) - 1 + (k - (Len(s) - 1))
    BY <1>1, <1>2
  <2> QED BY <1>1, <2>1
<1>3. ASSUME NEW k \in 1..(Len(s) - 1)
      PROVE  k \in 1..Len(s) /\ k # Len(s) /\ s2[k] = s[k]
  BY <1>1
<1>4. Len(s2) \in Nat
  BY <1>1
<1> QED BY <1>2, <1>3, <1>4

(* What the turn does to the sets. *)
LEMMA SetsAfter ==
  ASSUME NEW V, NEW adj, NEW s, NEW u, NEW m, NEW s2, NEW u2, NEW m2,
         NEW current, NEW order,
         Visiting(V, adj, s, u, m, s2, u2, m2, current, order)
  PROVE  /\ current \in ToSet(s)
         /\ ToSet(s2) = (ToSet(s) \ {current}) \union (adj[current] \ m)
         /\ ToSet(u2) = ToSet(u) \union {current}
<1> DEFINE S(x) == {x[i] : i \in 1..Len(x)}
<1>0. s \in Seq(V) /\ Distinct(s) /\ u \in Seq(V) /\ s2 \in Seq(V) /\ u2 \in Seq(V)
  BY DEF Visiting
<1>1. ToSet(s) = S(s) /\ ToSet(u) = S(u) /\ ToSet(s2) = S(s2) /\ ToSet(u2) = S(u2)
  BY <1>0, ElementsOf
<1>2. /\ Len(s) \in Nat /\ Len(s) >= 1 /\ current = s[Len(s)] /\ Len(s) \in 1..Len(s)
      /\ Len(u) \in Nat /\ Len(u2) = Len(u) + 1 /\ u2[Len(u) + 1] = current
      /\ \A i \in 1..Len(u) : u2[i] = u[i]
  BY DEF Visiting
<1>3. /\ Len(order) \in Nat /\ Len(s2) = Len(s) - 1 + Len(order)
      /\ \A i \in 1..Len(order) : order[i] \in adj[current] \ m
      /\ \A x \in adj[current] \ m : \E i \in 1..Len(order) : order[i] = x
      /\ \A i \in 1..(Len(s) - 1) : s2[i] = s[i]
      /\ \A i \in 1..Len(order) : s2[Len(s) - 1 + i] = order[i]
  BY DEF Visiting
<1>4. S(u2) = S(u) \union {current}
  <2>1. 1..(Len(u) + 1) = (1..Len(u)) \union {Len(u) + 1}
    BY <1>2
  <2> QED BY <1>2, <2>1
<1>5. S(s2) \subseteq (S(s) \ {current}) \union (adj[current] \ m)
  <2> SUFFICES ASSUME NEW k \in 1..Len(s2)
               PROVE  s2[k] \in (S(s) \ {current}) \union (adj[current] \ m)
    OBVIOUS
  <2>1. CASE k \in 1..(Len(s) - 1) /\ k \in 1..Len(s) /\ k # Len(s) /\ s2[k] = s[k]
    <3>1. s[k] # s[Len(s)]
      BY <1>0, <1>2, <2>1 DEF Distinct
    <3> QED BY <1>2, <2>1, <3>1
  <2>2. CASE \E i \in 1..Len(order) : k = Len(s) - 1 + i /\ s2[k] = order[i]
    BY <1>3, <2>2
  <2>3. \A x \in 1..Len(s2) :
          \/ x \in 1..(Len(s) - 1) /\ x \in 1..Len(s) /\ x # Len(s) /\ s2[x] = s[x]
          \/ \E i \in 1..Len(order) : x = Len(s) - 1 + i /\ s2[x] = order[i]
    BY StackAfter
  <2> QED BY <2>1, <2>2, <2>3
<1>6. S(s) \ {current} \subseteq S(s2)
  <2> SUFFICES ASSUME NEW k \in 1..Len(s), s[k] # current
               PROVE  s[k] \in S(s2)
    OBVIOUS
  <2>1. k # Len(s)
    BY <1>2
  <2>2. k \in 1..(Len(s) - 1) /\ k \in 1..Len(s2)
    BY <1>2, <1>3, <2>1
  <2> QED BY <1>3, <2>2
<1>7. adj[current] \ m \subseteq S(s2)
  <2> SUFFICES ASSUME NEW x \in adj[current] \ m
               PROVE  x \in S(s2)
    OBVIOUS
  <2>1. PICK i \in 1..Len(order) : order[i] = x
    BY <1>3
  <2>2. Len(s) - 1 + i \in 1..Len(s2)
    BY <1>2, <1>3
  <2> QED BY <1>3, <2>1, <2>2
<1>8. current \in S(s)
  BY <1>2
<1> HIDE DEF S
<1> QED BY <1>1, <1>4, <1>5, <1>6, <1>7, <1>8

LEMMA VisitKeepsPlaces ==
  ASSUME NEW V, NEW adj, NEW s, NEW u, NEW m, NEW K,
         NEW s2, NEW u2, NEW m2, NEW current, NEW order,
         Mutual(V, adj), Clustered(V, adj, s, u, m, K),
         Visiting(V, adj, s, u, m, s2, u2, m2, current, order)
  PROVE  EachInItsPlace(V, s2, u2, m2, K)
<1>1. EachInItsPlace(V, s, u, m, K)
  BY DEF Clustered
<1>2. s \in Seq(V) /\ Distinct(s) /\ u \in Seq(V) /\ Distinct(u)
  BY <1>1 DEF EachInItsPlace
<1>3. /\ current \in ToSet(s)
      /\ ToSet(s2) = (ToSet(s) \ {current}) \union (adj[current] \ m)
      /\ ToSet(u2) = ToSet(u) \union {current}
  BY SetsAfter
<1>4. m2 = m \union adj[current]
  BY DEF Visiting
<1>5. /\ m = ToSet(s) \union ToSet(u) \union UNION {ToSet(c) : c \in K}
      /\ ToSet(s) \intersect ToSet(u) = {}
      /\ \A c \in K : ToSet(c) \intersect (ToSet(s) \union ToSet(u)) = {}
  BY <1>1 DEF EachInItsPlace
<1>6. \A c \in K : ToSet(c) \subseteq m
  BY <1>5
<1>7. m2 = ToSet(s2) \union ToSet(u2) \union UNION {ToSet(c) : c \in K}
  BY <1>3, <1>4, <1>5
<1>8. /\ ToSet(s2) \intersect ToSet(u2) = {}
      /\ \A c \in K : ToSet(c) \intersect (ToSet(s2) \union ToSet(u2)) = {}
  BY <1>3, <1>5, <1>6
<1>9. Distinct(u2)
  <2> SUFFICES ASSUME NEW i \in 1..Len(u2), NEW j \in 1..Len(u2), u2[i] = u2[j]
               PROVE  i = j
    BY DEF Distinct
  <2>1. /\ Len(u) \in Nat /\ Len(u2) = Len(u) + 1 /\ u2[Len(u) + 1] = current
        /\ \A k \in 1..Len(u) : u2[k] = u[k]
    BY DEF Visiting
  <2>2. \A k \in 1..Len(u) : u2[k] \in ToSet(u)
    BY <1>2, <2>1, ElementsOf
  <2>3. \A k \in 1..Len(u) : u2[k] # current
    BY <1>3, <1>5, <2>2
  <2>4. (i \in 1..Len(u) \/ i = Len(u) + 1) /\ (j \in 1..Len(u) \/ j = Len(u) + 1)
    BY <2>1
  <2>5. CASE i \in 1..Len(u) /\ j \in 1..Len(u)
    BY <1>2, <2>1, <2>5 DEF Distinct
  <2>6. CASE ~(i \in 1..Len(u) /\ j \in 1..Len(u))
    BY <2>1, <2>3, <2>4, <2>6
  <2> QED BY <2>5, <2>6
<1>10. Distinct(s2)
  <2> SUFFICES ASSUME NEW i \in 1..Len(s2), NEW j \in 1..Len(s2), s2[i] = s2[j]
               PROVE  i = j
    BY DEF Distinct
  <2> DEFINE Old(k) == k \in 1..(Len(s) - 1) /\ k \in 1..Len(s) /\ k # Len(s) /\ s2[k] = s[k]
             New(k) == \E x \in 1..Len(order) : k = Len(s) - 1 + x /\ s2[k] = order[x]
  <2>1. \A k \in 1..Len(s2) : Old(k) \/ New(k)
    BY StackAfter
  <2>2. ASSUME NEW k, Old(k) PROVE s2[k] \in m
    <3>1. s[k] \in ToSet(s)
      BY <1>2, <2>2, ElementsOf
    <3> QED BY <1>5, <2>2, <3>1
  <2>3. ASSUME NEW k, New(k) PROVE s2[k] \notin m
    BY <2>3 DEF Visiting
  <2>4. CASE Old(i) /\ Old(j)
    BY <1>2, <2>4 DEF Distinct
  <2>5. CASE New(i) /\ New(j)
    BY <2>5 DEF Visiting
  <2> HIDE DEF Old, New
  <2> QED BY <2>1, <2>2, <2>3, <2>4, <2>5
<1>11. s2 \in Seq(V) /\ u2 \in Seq(V)
  BY DEF Visiting
<1> QED BY <1>1, <1>7, <1>8, <1>9, <1>10, <1>11 DEF EachInItsPlace

LEMMA VisitKeepsGrown ==
  ASSUME NEW V, NEW adj, NEW s, NEW u, NEW m, NEW K,
         NEW s2, NEW u2, NEW m2, NEW current, NEW order,
         Mutual(V, adj), Clustered(V, adj, s, u, m, K),
         Visiting(V, adj, s, u, m, s2, u2, m2, current, order)
  PROVE  GrownOverEdges(adj, s2, u2, K)
<1>1. EachInItsPlace(V, s, u, m, K) /\ GrownOverEdges(adj, s, u, K)
  BY DEF Clustered
<1>2. s \in Seq(V) /\ Distinct(s) /\ u \in Seq(V) /\ Distinct(u)
  BY <1>1 DEF EachInItsPlace
<1>3. /\ current \in ToSet(s)
      /\ ToSet(s2) = (ToSet(s) \ {current}) \union (adj[current] \ m)
      /\ ToSet(u2) = ToSet(u) \union {current}
  BY SetsAfter
<1>4. /\ m = ToSet(s) \union ToSet(u) \union UNION {ToSet(c) : c \in K}
      /\ ToSet(s) \intersect ToSet(u) = {}
      /\ \A c \in K : ToSet(c) \intersect (ToSet(s) \union ToSet(u)) = {}
  BY <1>1 DEF EachInItsPlace
<1>5. /\ Len(s) \in Nat /\ Len(s) >= 1 /\ current = s[Len(s)] /\ Len(s) \in 1..Len(s)
      /\ Len(u) \in Nat /\ Len(u2) = Len(u) + 1 /\ u2[Len(u) + 1] = current
      /\ \A i \in 1..Len(u) : u2[i] = u[i]
      /\ Len(u) + 1 \in 1..Len(u2)
  BY DEF Visiting
<1>6. /\ Grown(adj, u)
      /\ \A c \in K : Grown(adj, c) /\ \A x \in ToSet(c) : adj[x] \subseteq ToSet(c)
      /\ \A x \in ToSet(u) : adj[x] \subseteq ToSet(u) \union ToSet(s)
      /\ u = <<>> => Len(s) <= 1
      /\ u # <<>> => \A i \in 1..Len(s) : \E j \in 1..Len(u) : s[i] \in adj[u[j]]
  BY <1>1 DEF GrownOverEdges
<1>7. current \in V /\ \A y \in adj[current] : y \in V /\ current \in adj[y]
  <2>1. ToSet(s) \subseteq V
    BY <1>2, ElementsOf
  <2> QED BY <1>3, <2>1 DEF Mutual
<1>8. Grown(adj, u2)
  <2> SUFFICES ASSUME NEW i \in 1..Len(u2), i > 1
               PROVE  \E j \in 1..Len(u2) : j < i /\ u2[i] \in adj[u2[j]]
    BY DEF Grown
  <2>1. CASE i \in 1..Len(u)
    <3>1. PICK j \in 1..Len(u) : j < i /\ u[i] \in adj[u[j]]
      BY <1>6, <2>1 DEF Grown
    <3> QED BY <1>5, <2>1, <3>1
  <2>2. CASE i = Len(u) + 1
    <3>1. Len(u) # 0
      BY <2>2
    <3>2. u # <<>>
      BY <1>2, <3>1, ElementsOf
    <3>3. PICK j \in 1..Len(u) : current \in adj[u[j]]
      BY <1>5, <1>6, <3>2
    <3> QED BY <1>5, <2>2, <3>3
  <2>3. i \in 1..Len(u) \/ i = Len(u) + 1
    BY <1>5
  <2> QED BY <2>1, <2>2, <2>3
<1>9. \A x \in ToSet(u2) : adj[x] \subseteq ToSet(u2) \union ToSet(s2)
  <2> SUFFICES ASSUME NEW x \in ToSet(u2), NEW y \in adj[x]
               PROVE  y \in ToSet(u2) \union ToSet(s2)
    OBVIOUS
  <2>1. CASE x \in ToSet(u)
    BY <1>3, <1>6, <2>1
  <2>2. CASE x = current
    <3>1. CASE y \in m
      <4>1. \A c \in K : y \notin ToSet(c)
        <5> SUFFICES ASSUME NEW c \in K, y \in ToSet(c) PROVE FALSE
          OBVIOUS
        <5>1. current \in adj[y]
          BY <1>7, <2>2
        <5>2. current \in ToSet(c)
          BY <1>6, <5>1
        <5> QED BY <1>3, <1>4, <5>2
      <4> QED BY <1>3, <1>4, <3>1, <4>1
    <3>2. CASE y \notin m
      BY <1>3, <2>2, <3>2
    <3> QED BY <3>1, <3>2
  <2> QED BY <1>3, <2>1, <2>2
<1>10. \A i \in 1..Len(s2) : \E j \in 1..Len(u2) : s2[i] \in adj[u2[j]]
  <2> TAKE i \in 1..Len(s2)
  <2>1. \A x \in 1..Len(s2) :
          \/ x \in 1..(Len(s) - 1) /\ x \in 1..Len(s) /\ x # Len(s) /\ s2[x] = s[x]
          \/ \E k \in 1..Len(order) : x = Len(s) - 1 + k /\ s2[x] = order[k]
    BY StackAfter
  <2>2. CASE i \in 1..(Len(s) - 1) /\ i \in 1..Len(s) /\ i # Len(s) /\ s2[i] = s[i]
    <3>1. u # <<>>
      BY <1>5, <1>6, <2>2
    <3>2. PICK j \in 1..Len(u) : s[i] \in adj[u[j]]
      BY <1>6, <2>2, <3>1
    <3> QED BY <1>5, <2>2, <3>2
  <2>3. CASE \E k \in 1..Len(order) : i = Len(s) - 1 + k /\ s2[i] = order[k]
    <3>1. s2[i] \in adj[current]
      BY <2>3 DEF Visiting
    <3> QED BY <1>5, <3>1
  <2> QED BY <2>1, <2>2, <2>3
<1>11. u2 # <<>>
  BY <1>5, ElementsOf DEF Visiting
<1> QED BY <1>6, <1>8, <1>9, <1>10, <1>11 DEF GrownOverEdges

(* A cut leaves some edge of what grew over edges on both its sides. *)
LEMMA GrownIsConnected ==
  ASSUME NEW V, NEW adj, NEW c \in Seq(V), Grown(adj, c),
         NEW T \in SUBSET ToSet(c), T # {}, T # ToSet(c)
  PROVE  \E x, y \in ToSet(c) : /\ y \in adj[x]
                                /\ (x \in T /\ y \notin T) \/ (x \notin T /\ y \in T)
<1>1. /\ Len(c) \in Nat /\ ToSet(c) = {c[i] : i \in 1..Len(c)}
      /\ \A i \in 1..Len(c) : c[i] \in ToSet(c)
  BY ElementsOf
<1>2. Len(c) >= 1 /\ 1 \in 1..Len(c)
  BY <1>1
<1> DEFINE Across == {i \in 1..Len(c) : (c[i] \in T) # (c[1] \in T)}
<1>3. Across # {}
  <2>1. CASE c[1] \in T
    <3>1. PICK i \in 1..Len(c) : c[i] \notin T
      BY <1>1
    <3> QED BY <2>1, <3>1
  <2>2. CASE c[1] \notin T
    <3>1. PICK i \in 1..Len(c) : c[i] \in T
      BY <1>1
    <3> QED BY <2>2, <3>1
  <2> QED BY <2>1, <2>2
<1>4. PICK i \in Across : \A k \in Across : i <= k
  <2>1. Across \in SUBSET Nat
    OBVIOUS
  <2> HIDE DEF Across
  <2> QED BY <1>3, <2>1, Least
<1>5. i \in 1..Len(c) /\ ((c[i] \in T) # (c[1] \in T)) /\ i > 1
  BY <1>1, <1>4
<1>6. PICK j \in 1..Len(c) : j < i /\ c[i] \in adj[c[j]]
  BY <1>5 DEF Grown
<1>7. (c[j] \in T) = (c[1] \in T)
  <2>1. j \notin Across
    BY <1>4, <1>5, <1>6
  <2> QED BY <2>1
<1>8. /\ c[j] \in ToSet(c) /\ c[i] \in ToSet(c)
      /\ \/ c[j] \in T /\ c[i] \notin T
         \/ c[j] \notin T /\ c[i] \in T
  <2>1. c[j] \in ToSet(c) /\ c[i] \in ToSet(c)
    BY <1>1, <1>5
  <2>2. c[j] \in T => c[i] \notin T
    BY <1>5, <1>7
  <2>3. c[j] \notin T => c[i] \in T
    BY <1>5, <1>7
  <2> QED BY <2>1, <2>2, <2>3
<1> QED BY <1>6, <1>8

-----------------------------------------------------------------------------
(* The clustering of imagine_for_planning is such a search *)

Adjacent ==
  [n \in Verified(context) |-> {x \in Verified(context) : Linked(context, n, x)}]

LEMMA ContextFields ==
  ASSUME NEW c \in Context
  PROVE  /\ c.nodes \subseteq Node /\ c.edges \subseteq Edge /\ c.lessons \subseteq Lesson
         /\ c.desired \in Nat
<1>1. /\ c.nodes \in SUBSET Node /\ c.edges \in SUBSET Edge /\ c.lessons \in SUBSET Lesson
      /\ c.desired \in Nat
  BY Zenon DEF Context
<1> QED BY <1>1

LEMMA AdjacentIsMutual == Mutual(Verified(context), Adjacent)
<1>1. \A n, x : Linked(context, n, x) => Linked(context, x, n)
  BY DEF Linked
<1>2. Adjacent \in [Verified(context) -> SUBSET Verified(context)]
  BY DEF Adjacent
<1>3. ASSUME NEW x \in Verified(context), NEW y \in Adjacent[x]
      PROVE  x \in Adjacent[y]
  <2>1. y \in Verified(context) /\ Linked(context, x, y)
    BY <1>3 DEF Adjacent
  <2> QED BY <1>1, <2>1 DEF Adjacent
<1> QED BY <1>2, <1>3 DEF Mutual

(* How the clustering stands. *)
Clustering ==
  Clustered(Verified(context), Adjacent, stack, cluster, met, clusters)

LEMMA NothingClustered ==
  ASSUME NEW V, NEW adj
  PROVE  Clustered(V, adj, <<>>, <<>>, {}, {})
<1>1. Len(<<>>) = 0
  OBVIOUS
<1>2. EachInItsPlace(V, <<>>, <<>>, {}, {})
  BY NothingIn, FS_EmptySet DEF EachInItsPlace
<1>3. GrownOverEdges(adj, <<>>, <<>>, {})
  BY <1>1, NothingIn DEF GrownOverEdges, Grown
<1> QED BY <1>2, <1>3 DEF Clustered

LEMMA StartKeepsClustering ==
  ASSUME Clustering, StartCluster
  PROVE  Clustering'
<1>1. /\ stack = <<>> /\ cluster = <<>> /\ cluster' = <<>> /\ clusters' = clusters
      /\ context' = context
  BY DEF StartCluster
<1>2. PICK n \in Verified(context) \ met : stack' = <<n>> /\ met' = met \union {n}
  BY DEF StartCluster
<1>3. Clustered(Verified(context), Adjacent, <<n>>, <<>>, met \union {n}, clusters)
  <2>1. Clustered(Verified(context), Adjacent, <<>>, <<>>, met, clusters)
    BY <1>1 DEF Clustering
  <2> QED BY <2>1, ClusteringStarts
<1>4. Adjacent' = Adjacent /\ Verified(context') = Verified(context)
  BY <1>1 DEF Adjacent
<1> QED BY <1>1, <1>2, <1>3, <1>4 DEF Clustering

LEMMA VisitKeepsClustering ==
  ASSUME context \in Context, Clustering, Visit
  PROVE  Clustering'
<1> DEFINE V       == Verified(context)
           current == Last(stack)
<1>1. /\ stack # <<>> /\ clusters' = clusters /\ context' = context
      /\ cluster' = Append(cluster, current)
      /\ met' = met \union Pushed(current)
  BY DEF Visit
<1>2. PICK order \in SetToSeqs(Pushed(current)) : stack' = Front(stack) \o order
  BY DEF Visit
<1>3. /\ stack \in Seq(V) /\ Distinct(stack) /\ cluster \in Seq(V)
  BY DEF Clustering, Clustered, EachInItsPlace
<1>4. /\ Len(stack) \in Nat /\ Len(stack) >= 1 /\ current = stack[Len(stack)]
      /\ current \in V /\ Len(cluster) \in Nat
  <2>1. Len(stack) \in Nat /\ Len(stack) # 0 /\ Len(cluster) \in Nat
    BY <1>1, <1>3, ElementsOf
  <2>2. Len(stack) \in 1..Len(stack)
    BY <2>1
  <2>3. stack[Len(stack)] \in V
    BY <1>3, <2>2, ElementsOf
  <2> QED BY <2>1, <2>3 DEF Last
<1>5. Pushed(current) = Adjacent[current] \ met /\ Adjacent[current] \subseteq V
  BY <1>4 DEF Pushed, Adjacent
<1>6. /\ order \in Seq(V)
      /\ Len(order) \in Nat
      /\ \A i \in 1..Len(order) : order[i] \in Adjacent[current] \ met
      /\ \A i, j \in 1..Len(order) : order[i] = order[j] => i = j
      /\ \A x \in Adjacent[current] \ met : \E i \in 1..Len(order) : order[i] = x
  <2>1. IsFiniteSet(Pushed(current))
    <3>1. Pushed(current) \in SUBSET Node
      BY <1>5, ContextFields DEF Verified
    <3> QED BY <3>1, NodesFinite
  <2>2. /\ order \in Seq(Pushed(current))
        /\ Len(order) \in Nat
        /\ \A i \in 1..Len(order) : order[i] \in Pushed(current)
        /\ \A i, j \in 1..Len(order) : order[i] = order[j] => i = j
        /\ \A x \in Pushed(current) : \E i \in 1..Len(order) : order[i] = x
    BY <2>1, Ordered
  <2>3. order \in Seq(V)
    <3>1. Pushed(current) \subseteq V
      BY <1>5
    <3> QED BY <2>2, <3>1
  <2> QED BY <1>5, <2>2, <2>3
<1>7. /\ cluster' \in Seq(V) /\ Len(cluster') = Len(cluster) + 1
      /\ cluster'[Len(cluster) + 1] = current
      /\ \A i \in 1..Len(cluster) : cluster'[i] = cluster[i]
  <2> HIDE DEF V, current
  <2> QED BY <1>1, <1>3, <1>4, AppendProperties
<1>8. /\ Front(stack) \in Seq(V) /\ Len(Front(stack)) = Len(stack) - 1
      /\ \A i \in 1..(Len(stack) - 1) : Front(stack)[i] = stack[i]
  <2>1. /\ 1 \in Int /\ Len(stack) - 1 \in Int
        /\ \A i \in 1..(Len(stack) - 1) : stack[i] \in V
    BY <1>3, <1>4
  <2>2. /\ SubSeq(stack, 1, Len(stack) - 1) \in Seq(V)
        /\ Len(SubSeq(stack, 1, Len(stack) - 1)) =
             IF 1 <= Len(stack) - 1 THEN (Len(stack) - 1) - 1 + 1 ELSE 0
        /\ \A i \in 1..((Len(stack) - 1) - 1 + 1) :
             SubSeq(stack, 1, Len(stack) - 1)[i] = stack[1 + i - 1]
    <3> HIDE DEF V
    <3> QED BY <2>1, SubSeqProperties
  <2>3. /\ (IF 1 <= Len(stack) - 1 THEN (Len(stack) - 1) - 1 + 1 ELSE 0) = Len(stack) - 1
        /\ (Len(stack) - 1) - 1 + 1 = Len(stack) - 1
        /\ \A i \in 1..(Len(stack) - 1) : 1 + i - 1 = i
    <3>1. \A k \in Nat : k >= 1 => /\ (IF 1 <= k - 1 THEN (k - 1) - 1 + 1 ELSE 0) = k - 1
                                  /\ (k - 1) - 1 + 1 = k - 1
                                  /\ \A i \in 1..(k - 1) : 1 + i - 1 = i
      OBVIOUS
    <3> HIDE DEF current
    <3> QED BY <1>4, <3>1
  <2>4. Front(stack) = SubSeq(stack, 1, Len(stack) - 1)
    BY DEF Front
  <2>5. Len(Front(stack)) = Len(stack) - 1
    BY <2>2, <2>3, <2>4
  <2>6. \A i \in 1..(Len(stack) - 1) : Front(stack)[i] = stack[i]
    BY <2>2, <2>3, <2>4
  <2> QED BY <2>2, <2>4, <2>5, <2>6
<1>9. /\ stack' \in Seq(V)
      /\ Len(stack') = Len(stack) - 1 + Len(order)
      /\ \A i \in 1..(Len(stack) - 1) : stack'[i] = stack[i]
      /\ \A i \in 1..Len(order) : stack'[Len(stack) - 1 + i] = order[i]
  <2>1. /\ Front(stack) \o order \in Seq(V)
        /\ Len(Front(stack) \o order) = Len(Front(stack)) + Len(order)
        /\ \A i \in 1..(Len(Front(stack)) + Len(order)) :
             (Front(stack) \o order)[i] = IF i <= Len(Front(stack)) THEN Front(stack)[i]
                                          ELSE order[i - Len(Front(stack))]
    <3>1. Front(stack) \in Seq(V) /\ order \in Seq(V)
      BY <1>6, <1>8
    <3> HIDE DEF V
    <3> QED BY <3>1, ConcatProperties
  <2>2. ASSUME NEW i \in 1..Len(order)
        PROVE  stack'[Len(stack) - 1 + i] = order[i]
    <3>1. /\ Len(stack) - 1 + i \in 1..(Len(Front(stack)) + Len(order))
          /\ ~(Len(stack) - 1 + i <= Len(Front(stack)))
          /\ (Len(stack) - 1 + i) - Len(Front(stack)) = i
      BY <1>4, <1>6, <1>8
    <3> QED BY <1>2, <2>1, <3>1
  <2>3. ASSUME NEW i \in 1..(Len(stack) - 1)
        PROVE  stack'[i] = stack[i]
    <3>1. i \in 1..(Len(Front(stack)) + Len(order)) /\ i <= Len(Front(stack))
      BY <1>4, <1>6, <1>8
    <3> QED BY <1>2, <1>8, <2>1, <3>1
  <2> QED BY <1>2, <1>8, <2>1, <2>2, <2>3
<1>10. met' = met \union Adjacent[current]
  BY <1>1, <1>5
<1>11. Visiting(V, Adjacent, stack, cluster, met, stack', cluster', met', current, order)
  <2> HIDE DEF V, current
  <2> QED BY <1>3, <1>4, <1>6, <1>7, <1>9, <1>10 DEF Visiting
<1>12. Mutual(V, Adjacent) /\ Clustered(V, Adjacent, stack, cluster, met, clusters)
  BY AdjacentIsMutual DEF Clustering
<1>13. EachInItsPlace(V, stack', cluster', met', clusters)
  <2> HIDE DEF V, current
  <2> QED BY <1>11, <1>12, VisitKeepsPlaces
<1>14. GrownOverEdges(Adjacent, stack', cluster', clusters)
  <2> HIDE DEF V, current
  <2> QED BY <1>11, <1>12, VisitKeepsGrown
<1>15. Adjacent' = Adjacent /\ Verified(context') = V
  BY <1>1 DEF Adjacent
<1> QED BY <1>1, <1>13, <1>14, <1>15 DEF Clustering, Clustered

LEMMA CloseKeepsClustering ==
  ASSUME Clustering, CloseCluster
  PROVE  Clustering'
<1>1. /\ stack = <<>> /\ cluster # <<>> /\ cluster' = <<>> /\ stack' = <<>> /\ met' = met
      /\ context' = context /\ clusters' = clusters \union {cluster}
  BY DEF CloseCluster
<1>2. Clustered(Verified(context), Adjacent, <<>>, <<>>, met, clusters \union {cluster})
  <2>1. Clustered(Verified(context), Adjacent, <<>>, cluster, met, clusters)
    BY <1>1 DEF Clustering
  <2> QED BY <1>1, <2>1, ClusterCloses
<1>3. Adjacent' = Adjacent /\ Verified(context') = Verified(context)
  BY <1>1 DEF Adjacent
<1> QED BY <1>1, <1>2, <1>3 DEF Clustering

-----------------------------------------------------------------------------
(* What scenarios are made of *)

LEMMA Remainder ==
  ASSUME NEW a \in Nat, NEW b \in Nat, b >= 1
  PROVE  a % b \in 0..(b - 1)
OBVIOUS

LEMMA TurnTaken ==
  ASSUME NEW S, NEW s \in Seq(S), Len(s) >= 1, NEW k \in Nat, k >= 1
  PROVE  Turn(k, s) \in S
<1>1. Len(s) \in Nat /\ k - 1 \in Nat
  OBVIOUS
<1>2. (k - 1) % Len(s) \in 0..(Len(s) - 1)
  BY <1>1, Remainder
<1>3. ((k - 1) % Len(s)) + 1 \in 1..Len(s)
  BY <1>1, <1>2
<1>4. \A i \in 1..Len(s) : s[i] \in S
  BY ElementsOf
<1> QED BY <1>3, <1>4 DEF Turn

(* The part of a cluster that is used grew over edges as well. *)
LEMMA BasisGrown ==
  ASSUME NEW V, NEW adj, NEW c \in Seq(V), c # <<>>, Grown(adj, c)
  PROVE  /\ Basis(c) \in Seq(V) /\ Basis(c) # <<>> /\ Grown(adj, Basis(c))
         /\ ToSet(Basis(c)) \subseteq ToSet(c) /\ ToSet(Basis(c)) # {}
<1> DEFINE n == Lower(Len(c), Higher(MaxBasisNodes, 1))
           b == SubSeq(c, 1, n)
<1>1. Len(c) \in Nat /\ Len(c) >= 1 /\ \A i \in 1..Len(c) : c[i] \in V
  <2>1. Len(c) \in Nat /\ Len(c) # 0 /\ \A i \in 1..Len(c) : c[i] \in V
    BY ElementsOf
  <2> QED BY <2>1
<1>2. n \in 1..Len(c)
  <2>1. MaxBasisNodes \in Nat
    BY ImaginationPolicyAssumption
  <2>2. \A x, y \in Nat : x >= 1 => Lower(x, Higher(y, 1)) \in 1..x
    BY DEF Lower, Higher
  <2> QED BY <1>1, <2>1, <2>2
<1>3. /\ b \in Seq(V)
      /\ Len(b) = IF 1 <= n THEN n - 1 + 1 ELSE 0
      /\ \A i \in 1..(n - 1 + 1) : b[i] = c[1 + i - 1]
  <2>1. 1 \in Int /\ n \in Int /\ \A i \in 1..n : c[i] \in V
    BY <1>1, <1>2
  <2> HIDE DEF n
  <2> QED BY <2>1, SubSeqProperties
<1>4. b \in Seq(V) /\ Len(b) = n /\ \A i \in 1..n : b[i] = c[i]
  <2>1. \A k \in Nat : k >= 1 => /\ (IF 1 <= k THEN k - 1 + 1 ELSE 0) = k
                                 /\ k - 1 + 1 = k
                                 /\ \A i \in 1..k : 1 + i - 1 = i
    OBVIOUS
  <2>2. n \in Nat /\ n >= 1
    BY <1>1, <1>2
  <2> HIDE DEF n, b
  <2>3. /\ (IF 1 <= n THEN n - 1 + 1 ELSE 0) = n
        /\ n - 1 + 1 = n
        /\ \A i \in 1..n : 1 + i - 1 = i
    BY <2>1, <2>2
  <2> QED BY <1>3, <2>3
<1>5. Basis(c) = b
  BY DEF Basis
<1> HIDE DEF n, b
<1>6. b # <<>>
  BY <1>2, <1>4, ElementsOf
<1>7. Grown(adj, b)
  <2> SUFFICES ASSUME NEW i \in 1..Len(b), i > 1
               PROVE  \E j \in 1..Len(b) : j < i /\ b[i] \in adj[b[j]]
    BY DEF Grown
  <2>1. i \in 1..Len(c)
    BY <1>1, <1>2, <1>4
  <2>2. PICK j \in 1..Len(c) : j < i /\ c[i] \in adj[c[j]]
    BY <2>1 DEF Grown
  <2>3. j \in 1..n
    BY <1>1, <1>2, <1>4, <2>1, <2>2
  <2> QED BY <1>4, <2>2, <2>3
<1>8. ToSet(b) \subseteq ToSet(c) /\ ToSet(b) # {}
  <2>1. ToSet(b) = {b[i] : i \in 1..Len(b)} /\ ToSet(c) = {c[i] : i \in 1..Len(c)}
    BY <1>4, ElementsOf
  <2>2. \A i \in 1..n : i \in 1..Len(c)
    BY <1>1, <1>2
  <2>3. 1 \in 1..n
    BY <1>1, <1>2
  <2> QED BY <1>4, <2>1, <2>2, <2>3
<1> QED BY <1>4, <1>5, <1>6, <1>7, <1>8

(* What grew over edges of the context is connected by them. *)
LEMMA GrownConnected ==
  ASSUME NEW c \in Seq(Verified(context)), Grown(Adjacent, c)
  PROVE  Connected(ToSet(c))
<1> SUFFICES ASSUME NEW T \in SUBSET ToSet(c), T # {}, T # ToSet(c)
             PROVE  Joined(T, ToSet(c) \ T)
  BY DEF Connected
<1>1. PICK x \in ToSet(c), y \in ToSet(c) :
        y \in Adjacent[x] /\ ((x \in T /\ y \notin T) \/ (x \notin T /\ y \in T))
  BY GrownIsConnected
<1>2. x \in Verified(context)
  BY ElementsOf
<1>3. PICK e \in context.edges : <<e.from, e.to>> \in {<<x, y>>, <<y, x>>}
  BY <1>1, <1>2 DEF Adjacent, Linked
<1>4. (e.from = x /\ e.to = y) \/ (e.from = y /\ e.to = x)
  BY <1>3
<1> QED BY <1>1, <1>3, <1>4 DEF Joined

LEMMA ActiveGoalsVerified ==
  ASSUME context \in Context, NEW goals \in ActiveGoals
  PROVE  goals \in Seq(Verified(context)) /\ Len(goals) >= 1
<1> DEFINE wanted == (Goal \union context.requested) \intersect Verified(context)
<1>1. Verified(context) \subseteq Node
  BY ContextFields DEF Verified
<1>2. CASE wanted = {}
  <2>1. goals \in {<<n>> : n \in UNION Top(Verified(context), 1, Importance)}
    BY <1>2 DEF ActiveGoals
  <2>2. PICK n \in UNION Top(Verified(context), 1, Importance) : goals = <<n>>
    BY <2>1
  <2>3. n \in Verified(context)
    BY TopTaken
  <2>4. Len(<<n>>) = 1 /\ <<n>> \in Seq(Verified(context))
    BY <2>3
  <2> QED BY <2>2, <2>4
<1>3. CASE wanted # {}
  <2>1. goals \in SetToSeqs(wanted)
    <3>1. goals \in Sorted(wanted, Importance)
      BY <1>3 DEF ActiveGoals
    <3> QED BY <3>1 DEF Sorted
  <2>2. IsFiniteSet(wanted)
    <3>1. wanted \in SUBSET Node
      BY <1>1
    <3> QED BY <3>1, NodesFinite
  <2> HIDE DEF wanted
  <2>3. /\ goals \in Seq(wanted) /\ Len(goals) \in Nat
        /\ \A x \in wanted : \E i \in 1..Len(goals) : goals[i] = x
    BY <2>1, <2>2, Ordered
  <2>4. Len(goals) >= 1
    BY <1>3, <2>3
  <2>5. wanted \subseteq Verified(context)
    BY DEF wanted
  <2> QED BY <2>3, <2>4, <2>5
<1> QED BY <1>2, <1>3

LEMMA SupportLinked ==
  ASSUME context \in Context, NEW basis, NEW chosen \in SelectSupportingLessons(basis)
  PROVE  chosen \subseteq context.lessons /\ LinkedFirst(chosen, context.lessons, ToSet(basis))
<1> DEFINE score == [l \in context.lessons |-> LessonSupport(l, basis)]
<1>1. \A S, k, f : \A T \in Top(S, k, f) :
        T \subseteq S /\ \A t \in T, s \in S \ T : f[t] >= f[s]
  BY TopTaken
<1>2. /\ chosen \subseteq context.lessons
      /\ \A t \in chosen, s \in context.lessons \ chosen : score[t] >= score[s]
  <2>1. chosen \in Top(context.lessons, Higher(MaxLessons, 1), score)
    BY DEF SelectSupportingLessons
  <2> HIDE DEF score
  <2> QED BY <1>1, <2>1
<1>3. context.lessons \subseteq Lesson
  BY ContextFields
<1>4. ASSUME NEW l \in chosen, NEW k \in context.lessons \ chosen,
             Supporting[k] \intersect ToSet(basis) # {},
             Supporting[l] \intersect ToSet(basis) = {}
      PROVE  FALSE
  <2> DEFINE a == Cardinality(Supporting[l] \intersect ToSet(basis))
             b == Cardinality(Supporting[k] \intersect ToSet(basis))
             p == Lower(10 * Reinforcements[l], 100)
             q == Lower(10 * Reinforcements[k], 100)
  <2>1. l \in Lesson /\ k \in Lesson /\ l \in context.lessons
    BY <1>2, <1>3
  <2>2. /\ a = 0 /\ b \in Nat /\ b >= 1
        /\ LessonConfidence[l] \in 0..100 /\ LessonConfidence[k] \in 0..100
    BY <1>4, <2>1, SupportCounts
  <2>3. p \in 0..100 /\ q \in 0..100
    <3>1. 10 * Reinforcements[l] \in Nat /\ 10 * Reinforcements[k] \in Nat
      BY <2>1, ReinforcementsAssumption
    <3>2. \A x \in Nat : Lower(x, 100) \in 0..100
      BY DEF Lower
    <3> QED BY <3>1, <3>2
  <2>4. \A x, y, v, w \in 0..100, n \in Nat :
          n >= 1 => ~(60 * 0 * 100 + 30 * x + 10 * v >= 60 * n * 100 + 30 * y + 10 * w)
    OBVIOUS
  <2>5. /\ score[l] = 60 * a * 100 + 30 * LessonConfidence[l] + 10 * p
        /\ score[k] = 60 * b * 100 + 30 * LessonConfidence[k] + 10 * q
    BY <2>1 DEF LessonSupport
  <2> HIDE DEF a, b, p, q, score
  <2>6. ~(60 * 0 * 100 + 30 * LessonConfidence[l] + 10 * p
            >= 60 * b * 100 + 30 * LessonConfidence[k] + 10 * q)
    BY <2>2, <2>3, <2>4
  <2>7. score[l] = 60 * 0 * 100 + 30 * LessonConfidence[l] + 10 * p
    BY <2>2, <2>5
  <2>8. score[l] >= score[k]
    BY <1>2, <1>4
  <2> QED BY <2>5, <2>6, <2>7, <2>8
<1> QED BY <1>2, <1>4 DEF LinkedFirst

-----------------------------------------------------------------------------
(* The invariant of imagine_for_planning *)

Founded(r) ==
  /\ \E c \in clusters : r.basis = Basis(c)
  /\ r.goal \in Verified(context)
  /\ r.lessons \in SelectSupportingLessons(r.basis)

AllFounded == \A k \in DOMAIN scenarios : Founded(scenarios[k])

ImaginationInv ==
  /\ context \in Context
  /\ imagining \in {"idle", "EmptyContext", "clustering", "done"}
  /\ Clustering
  /\ imagining \in {"idle", "EmptyContext"} =>
       stack = <<>> /\ cluster = <<>> /\ met = {} /\ clusters = {}
  /\ imagining # "done" => scenarios = <<>>
  /\ imagining = "clustering" => Verified(context) # {}
  /\ imagining = "done" =>
       stack = <<>> /\ cluster = <<>> /\ Verified(context) \subseteq met
  /\ AllFounded

LEMMA NoneFounded == DOMAIN <<>> = {}
OBVIOUS

LEMMA ImaginationStarts ==
  ASSUME ImaginationInit
  PROVE  ImaginationInv
<1>1. /\ imagining = "idle" /\ context = NoContext /\ stack = <<>> /\ cluster = <<>>
      /\ met = {} /\ clusters = {} /\ scenarios = <<>>
  BY DEF ImaginationInit
<1>2. context \in Context
  <2>1. /\ {} \in SUBSET Node /\ {} \in SUBSET Edge /\ {} \in SUBSET Lesson /\ 0 \in Nat
    OBVIOUS
  <2> QED BY <1>1, <2>1 DEF Context, NoContext
<1>3. Clustering
  BY <1>1, NothingClustered DEF Clustering
<1> QED BY <1>1, <1>2, <1>3, NoneFounded DEF ImaginationInv, AllFounded

LEMMA BeginKeepsImagination ==
  ASSUME ImaginationInv, NEW c \in Context, Begin(c)
  PROVE  ImaginationInv'
<1>1. /\ stack' = <<>> /\ cluster' = <<>> /\ met' = {} /\ clusters' = {} /\ scenarios' = <<>>
      /\ context' = c
      /\ imagining' = IF Verified(c) = {} THEN "EmptyContext" ELSE "clustering"
  BY DEF Begin, ImaginationInv
<1>2. Clustering'
  <2>1. Clustered(Verified(context'), Adjacent', <<>>, <<>>, {}, {})
    BY NothingClustered
  <2> QED BY <1>1, <2>1 DEF Clustering
<1> QED BY <1>1, <1>2, NoneFounded DEF ImaginationInv, AllFounded

LEMMA ClusteringKeepsImagination ==
  ASSUME ImaginationInv, StartCluster \/ Visit \/ CloseCluster
  PROVE  ImaginationInv'
<1>1. Clustering'
  BY StartKeepsClustering, VisitKeepsClustering, CloseKeepsClustering DEF ImaginationInv
<1>2. /\ imagining = "clustering" /\ imagining' = imagining /\ context' = context
      /\ scenarios' = scenarios
  BY DEF StartCluster, Visit, CloseCluster
<1>3. scenarios = <<>> /\ Verified(context) # {} /\ context \in Context
  BY <1>2 DEF ImaginationInv
<1> QED BY <1>1, <1>2, <1>3, NoneFounded DEF ImaginationInv, AllFounded

LEMMA ImagineFounds ==
  ASSUME ImaginationInv, Imagine
  PROVE  \A k \in DOMAIN scenarios' : Founded(scenarios'[k])
<1>1. /\ imagining = "clustering" /\ Verified(context) \subseteq met
      /\ stack = <<>> /\ cluster = <<>>
  BY DEF Imagine
<1>2. PICK order \in Sorted(clusters, [c \in clusters |-> ClusterRank(c)]),
           goals \in ActiveGoals :
       \E lessons \in [1..Desired ->
                         UNION {SelectSupportingLessons(b) :
                                  b \in Range([k \in 1..Desired |-> Basis(Turn(k, order))])}] :
         /\ \A k \in 1..Desired :
              lessons[k] \in SelectSupportingLessons(
                               [i \in 1..Desired |-> Basis(Turn(i, order))][k])
         /\ scenarios' = [k \in 1..Desired |->
                            [basis |-> [i \in 1..Desired |-> Basis(Turn(i, order))][k],
                             goal |-> Turn(k, goals), lessons |-> lessons[k]]]
  BY Zenon DEF Imagine
<1>3. PICK lessons :
         /\ \A k \in 1..Desired : lessons[k] \in SelectSupportingLessons(Basis(Turn(k, order)))
         /\ scenarios' = [k \in 1..Desired |->
                            [basis |-> Basis(Turn(k, order)), goal |-> Turn(k, goals),
                             lessons |-> lessons[k]]]
  BY <1>2
<1>4. context \in Context /\ Clustering /\ Verified(context) # {}
  BY <1>1 DEF ImaginationInv
<1>5. IsFiniteSet(clusters) /\ clusters # {}
  <2>1. /\ IsFiniteSet(clusters)
        /\ met = ToSet(<<>>) \union ToSet(<<>>) \union UNION {ToSet(c) : c \in clusters}
    BY <1>1, <1>4 DEF Clustering, Clustered, EachInItsPlace
  <2> QED BY <1>1, <1>4, <2>1, NothingIn
<1>6. order \in Seq(clusters) /\ Len(order) >= 1
  <2>1. order \in SetToSeqs(clusters)
    BY <1>2 DEF Sorted
  <2>2. /\ order \in Seq(clusters) /\ Len(order) \in Nat
        /\ \A x \in clusters : \E i \in 1..Len(order) : order[i] = x
    BY <1>5, <2>1, Ordered
  <2> QED BY <1>5, <2>2
<1>7. goals \in Seq(Verified(context)) /\ Len(goals) >= 1
  BY <1>2, <1>4, ActiveGoalsVerified
<1>8. Desired \in Nat
  <2>1. DefaultScenarioCount \in Nat /\ MaxScenarios \in Nat /\ context.desired \in Nat
    BY <1>4, ContextFields, ImaginationPolicyAssumption
  <2> QED BY <2>1 DEF Desired, Lower
<1> SUFFICES ASSUME NEW k \in DOMAIN scenarios'
             PROVE  Founded(scenarios'[k])
  OBVIOUS
<1>9. k \in 1..Desired /\ k \in Nat /\ k >= 1
  BY <1>3, <1>8
<1>10. Turn(k, order) \in clusters /\ Turn(k, goals) \in Verified(context)
  BY <1>6, <1>7, <1>9, TurnTaken
<1>11. /\ scenarios'[k].basis = Basis(Turn(k, order))
       /\ scenarios'[k].goal = Turn(k, goals)
       /\ scenarios'[k].lessons = lessons[k]
  BY <1>3, <1>9
<1>12. lessons[k] \in SelectSupportingLessons(Basis(Turn(k, order)))
  BY <1>3, <1>9
<1> QED BY <1>10, <1>11, <1>12 DEF Founded

LEMMA ImagineKeepsImagination ==
  ASSUME ImaginationInv, Imagine
  PROVE  ImaginationInv'
<1>1. \A k \in DOMAIN scenarios' : Founded(scenarios'[k])
  BY ImagineFounds
<1>2. /\ Verified(context) \subseteq met /\ stack = <<>> /\ cluster = <<>>
      /\ imagining' = "done"
      /\ context' = context /\ stack' = stack /\ cluster' = cluster /\ met' = met
      /\ clusters' = clusters
  BY DEF Imagine
<1>3. AllFounded'
  BY <1>1, <1>2 DEF AllFounded, Founded, SelectSupportingLessons, LessonSupport
<1>4. Clustering'
  <2>1. Adjacent' = Adjacent
    BY <1>2 DEF Adjacent
  <2> QED BY <1>2, <2>1 DEF ImaginationInv, Clustering
<1> QED BY <1>2, <1>3, <1>4 DEF ImaginationInv

LEMMA ImaginationStandsStill ==
  ASSUME ImaginationInv, UNCHANGED imaginationVars
  PROVE  ImaginationInv'
<1>1. /\ imagining' = imagining /\ context' = context /\ stack' = stack /\ cluster' = cluster
      /\ met' = met /\ clusters' = clusters /\ scenarios' = scenarios
  BY DEF imaginationVars
<1>2. Clustering'
  <2>1. Adjacent' = Adjacent
    BY <1>1 DEF Adjacent
  <2> QED BY <1>1, <2>1 DEF ImaginationInv, Clustering
<1>3. AllFounded'
  <2>1. AllFounded
    BY DEF ImaginationInv
  <2> QED BY <1>1, <2>1 DEF AllFounded, Founded, SelectSupportingLessons, LessonSupport
<1> QED BY <1>1, <1>2, <1>3 DEF ImaginationInv

-----------------------------------------------------------------------------
(* What the invariant of imagine_for_planning says *)

LEMMA WithinMet ==
  ASSUME NEW V, NEW M, NEW s \in Seq(V), ToSet(s) \subseteq M
  PROVE  s \in Seq(M)
<1>1. /\ Len(s) \in Nat /\ DOMAIN s = 1..Len(s) /\ ToSet(s) = {s[i] : i \in 1..Len(s)}
  BY ElementsOf
<1>2. \A i \in 1..Len(s) : s[i] \in M
  BY <1>1
<1> QED BY <1>1, <1>2

LEMMA MetWhatIsListed ==
  ASSUME ImaginationInv
  PROVE  /\ stack \in Seq(met) /\ cluster \in Seq(met) /\ clusters \subseteq Seq(met)
         /\ met \subseteq Verified(context)
         /\ \A c \in clusters : /\ c \in Seq(Verified(context)) /\ c # <<>>
                                /\ ToSet(c) \subseteq met
                                /\ Distinct(c) /\ Grown(Adjacent, c)
                                /\ \A x \in ToSet(c) : Adjacent[x] \subseteq ToSet(c)
<1> DEFINE V == Verified(context)
<1>1. EachInItsPlace(V, stack, cluster, met, clusters) /\ GrownOverEdges(Adjacent, stack, cluster, clusters)
  BY DEF ImaginationInv, Clustering, Clustered
<1> HIDE DEF V
<1>2. /\ stack \in Seq(V) /\ cluster \in Seq(V)
      /\ met = ToSet(stack) \union ToSet(cluster) \union UNION {ToSet(c) : c \in clusters}
      /\ \A c \in clusters : c \in Seq(V) /\ c # <<>> /\ Distinct(c)
  BY <1>1 DEF EachInItsPlace
<1>3. \A c \in clusters : Grown(Adjacent, c) /\ \A x \in ToSet(c) : Adjacent[x] \subseteq ToSet(c)
  BY <1>1 DEF GrownOverEdges
<1>4. /\ ToSet(stack) \subseteq met /\ ToSet(cluster) \subseteq met
      /\ \A c \in clusters : ToSet(c) \subseteq met
  BY <1>2
<1>5. /\ ToSet(stack) \subseteq V /\ ToSet(cluster) \subseteq V
      /\ \A c \in clusters : ToSet(c) \subseteq V
  BY <1>2, ElementsOf
<1>6. met \subseteq V
  BY <1>2, <1>5
<1>7. stack \in Seq(met) /\ cluster \in Seq(met) /\ \A c \in clusters : c \in Seq(met)
  BY <1>2, <1>4, WithinMet
<1> QED BY <1>2, <1>3, <1>4, <1>6, <1>7 DEF V

LEMMA ScenarioFounded ==
  ASSUME ImaginationInv, NEW k \in DOMAIN scenarios
  PROVE  /\ scenarios[k].basis \in Seq(met)
         /\ ToSet(scenarios[k].basis) # {}
         /\ ToSet(scenarios[k].basis) \subseteq Verified(context)
         /\ Connected(ToSet(scenarios[k].basis))
         /\ scenarios[k].goal \in Verified(context)
         /\ scenarios[k].lessons \subseteq context.lessons
         /\ LinkedFirst(scenarios[k].lessons, context.lessons, ToSet(scenarios[k].basis))
<1>1. Founded(scenarios[k]) /\ context \in Context
  BY DEF ImaginationInv, AllFounded
<1>2. PICK c \in clusters : scenarios[k].basis = Basis(c)
  BY <1>1 DEF Founded
<1>3. /\ c \in Seq(Verified(context)) /\ c # <<>> /\ ToSet(c) \subseteq met
      /\ Grown(Adjacent, c) /\ met \subseteq Verified(context)
  BY MetWhatIsListed
<1>4. /\ Basis(c) \in Seq(Verified(context)) /\ Grown(Adjacent, Basis(c))
      /\ ToSet(Basis(c)) \subseteq ToSet(c) /\ ToSet(Basis(c)) # {}
  BY <1>3, BasisGrown
<1>5. Connected(ToSet(Basis(c)))
  BY <1>4, GrownConnected
<1>6. Basis(c) \in Seq(met)
  BY <1>3, <1>4, WithinMet
<1>7. /\ scenarios[k].goal \in Verified(context)
      /\ scenarios[k].lessons \in SelectSupportingLessons(scenarios[k].basis)
  BY <1>1 DEF Founded
<1>8. /\ scenarios[k].lessons \subseteq context.lessons
      /\ LinkedFirst(scenarios[k].lessons, context.lessons, ToSet(scenarios[k].basis))
  BY <1>1, <1>7, SupportLinked
<1> QED BY <1>2, <1>3, <1>4, <1>5, <1>6, <1>7, <1>8

LEMMA ImaginationIsTyped ==
  ASSUME ImaginationInv
  PROVE  ImaginationTypeOK
<1>1. /\ imagining \in {"idle", "EmptyContext", "clustering", "done"}
      /\ context \in Context
  BY DEF ImaginationInv
<1>2. /\ stack \in Seq(met) /\ cluster \in Seq(met) /\ clusters \subseteq Seq(met)
      /\ met \subseteq Verified(context)
  BY MetWhatIsListed
<1>3. Verified(context) \subseteq context.nodes
  BY DEF Verified
<1>4. \A k \in DOMAIN scenarios :
       /\ scenarios[k].basis \in Seq(met)
       /\ scenarios[k].goal \in context.nodes
       /\ scenarios[k].lessons \subseteq context.lessons
  BY <1>3, ScenarioFounded
<1> QED BY <1>1, <1>2, <1>3, <1>4 DEF ImaginationTypeOK

(* No edge of the context leaves a cluster that is closed. *)
LEMMA ApartIsNotJoined ==
  ASSUME ImaginationInv, NEW c \in clusters, NEW d \in clusters,
         ToSet(c) \intersect ToSet(d) = {}
  PROVE  ~Joined(ToSet(c), ToSet(d))
<1> SUFFICES ASSUME Joined(ToSet(c), ToSet(d)) PROVE FALSE
  OBVIOUS
<1>1. /\ ToSet(c) \subseteq Verified(context) /\ ToSet(d) \subseteq Verified(context)
      /\ \A x \in ToSet(c) : Adjacent[x] \subseteq ToSet(c)
  BY MetWhatIsListed
<1>2. PICK e \in context.edges : \/ e.from \in ToSet(c) /\ e.to \in ToSet(d)
                                 \/ e.from \in ToSet(d) /\ e.to \in ToSet(c)
  BY DEF Joined
<1>3. PICK x \in ToSet(c), y \in ToSet(d) : <<e.from, e.to>> \in {<<x, y>>, <<y, x>>}
  BY <1>2
<1>4. x \in Verified(context) /\ y \in Verified(context)
  BY <1>1
<1>5. Linked(context, x, y)
  BY <1>2, <1>3, <1>4 DEF Linked
<1>6. y \in Adjacent[x]
  BY <1>4, <1>5 DEF Adjacent
<1> QED BY <1>1, <1>6

LEMMA ComponentsFound ==
  ASSUME ImaginationInv
  PROVE  ClustersAreComponents
<1> SUFFICES ASSUME imagining = "done"
             PROVE  /\ UNION {ToSet(c) : c \in clusters} = context.nodes \ Imagined
                    /\ \A c \in clusters : Connected(ToSet(c)) /\ IsInjective(c)
                    /\ \A c, d \in clusters :
                         c # d => /\ ToSet(c) \intersect ToSet(d) = {}
                                  /\ ~Joined(ToSet(c), ToSet(d))
  BY DEF ClustersAreComponents
<1>1. stack = <<>> /\ cluster = <<>> /\ Verified(context) \subseteq met
  BY DEF ImaginationInv
<1>2. EachInItsPlace(Verified(context), stack, cluster, met, clusters)
  BY DEF ImaginationInv, Clustering, Clustered
<1>3. met = UNION {ToSet(c) : c \in clusters}
  BY <1>1, <1>2, NothingIn DEF EachInItsPlace
<1>4. met = context.nodes \ Imagined
  BY <1>1, MetWhatIsListed DEF Verified
<1>5. ASSUME NEW c \in clusters
      PROVE  Connected(ToSet(c)) /\ IsInjective(c)
  <2>1. c \in Seq(Verified(context)) /\ Distinct(c) /\ Grown(Adjacent, c)
    BY MetWhatIsListed
  <2>2. DOMAIN c = 1..Len(c)
    BY <2>1, ElementsOf
  <2> QED BY <2>1, <2>2, GrownConnected DEF Distinct, IsInjective
<1>6. \A c, d \in clusters : c # d => ToSet(c) \intersect ToSet(d) = {}
  BY <1>2 DEF EachInItsPlace
<1>7. \A c, d \in clusters : c # d => ~Joined(ToSet(c), ToSet(d))
  BY <1>6, ApartIsNotJoined
<1> QED BY <1>3, <1>4, <1>5, <1>6, <1>7

-----------------------------------------------------------------------------
(* The two calls together *)

(* What is imagined from is what was recalled. *)
Handed ==
  imagining # "idle" =>
    /\ recall = "done"
    /\ context.nodes = packet.nodes
    /\ context.edges = packet.edges
    /\ context.lessons = packet.lessons

PlanInv == RecallInv /\ ImaginationInv /\ Handed

LEMMA PlanInvInit == Init => PlanInv
<1> SUFFICES ASSUME Init PROVE PlanInv
  OBVIOUS
<1>1. RecallInit /\ ImaginationInit
  BY DEF Init
<1>2. imagining = "idle"
  BY <1>1 DEF ImaginationInit
<1> QED BY <1>1, <1>2, RecallInvInit, ImaginationStarts DEF PlanInv, Handed

LEMMA GenerateHands ==
  ASSUME PlanInv, GenerateImaginedScenarios
  PROVE  PlanInv'
<1>1. /\ recall = "done" /\ UNCHANGED recallVars /\ RecallInv /\ ImaginationInv
  BY DEF GenerateImaginedScenarios, PlanInv
<1>2. PICK goals \in RequestedGoals, desired \in DesiredScenarios :
        Begin([nodes |-> packet.nodes, edges |-> packet.edges,
               lessons |-> packet.lessons, requested |-> goals, desired |-> desired])
  BY DEF GenerateImaginedScenarios
<1> DEFINE c == [nodes |-> packet.nodes, edges |-> packet.edges,
                 lessons |-> packet.lessons, requested |-> goals, desired |-> desired]
<1>3. c \in Context
  <2>1. request \in Request
    BY <1>1 DEF RecallInv, RecallBase, RecallTypeOK, CallTypeOK
  <2>2. /\ packet.nodes \subseteq request.nodes /\ packet.edges \subseteq request.edges
        /\ packet.lessons \subseteq request.lessons
    BY <1>1 DEF RecallInv, RecallBase, RecallTypeOK, PacketTypeOK
  <2>3. /\ packet.nodes \in SUBSET Node /\ packet.edges \in SUBSET Edge
        /\ packet.lessons \in SUBSET Lesson
    BY <2>1, <2>2, RequestTyped
  <2>4. goals \in SUBSET Node /\ desired \in Nat
    BY PlanningAssumption
  <2> QED BY <2>3, <2>4 DEF Context
<1>4. /\ c.nodes = packet.nodes /\ c.edges = packet.edges /\ c.lessons = packet.lessons
  OBVIOUS
<1> HIDE DEF c
<1>5. Begin(c)
  BY <1>2 DEF c
<1>6. ImaginationInv'
  BY <1>1, <1>3, <1>5, BeginKeepsImagination
<1>7. RecallInv'
  BY <1>1, RecallInvStep
<1>8. Handed'
  BY <1>1, <1>4, <1>5 DEF Handed, Begin, recallVars
<1> QED BY <1>6, <1>7, <1>8 DEF PlanInv

LEMMA PlanInvStep == PlanInv /\ [Next]_vars => PlanInv'
<1> SUFFICES ASSUME PlanInv, [Next]_vars
             PROVE  PlanInv'
  OBVIOUS
<1>0. RecallInv /\ ImaginationInv /\ Handed
  BY DEF PlanInv
<1>1. CASE RecallNext /\ UNCHANGED imaginationVars
  <2>1. RecallInv' /\ ImaginationInv'
    BY <1>0, <1>1, RecallInvStep, ImaginationStandsStill
  <2>2. recall # "done"
    BY <1>1 DEF RecallNext, Search, SearchFails, Expand, MergeAndRank, AssembleMemoryPacket
  <2>3. imagining' = "idle"
    BY <1>0, <1>1, <2>2 DEF Handed, imaginationVars
  <2> QED BY <2>1, <2>3 DEF PlanInv, Handed
<1>2. CASE GenerateImaginedScenarios
  BY <1>2, GenerateHands
<1>3. CASE Imagining /\ UNCHANGED recallVars
  <2>1. RecallInv'
    BY <1>0, <1>3, RecallInvStep
  <2>2. ImaginationInv'
    BY <1>0, <1>3, ClusteringKeepsImagination, ImagineKeepsImagination DEF Imagining
  <2>3. context' = context /\ imagining = "clustering"
    BY <1>3 DEF Imagining, StartCluster, Visit, CloseCluster, Imagine
  <2>4. recall' = recall /\ packet' = packet
    BY <1>3 DEF recallVars
  <2> QED BY <1>0, <2>1, <2>2, <2>3, <2>4 DEF PlanInv, Handed
<1>4. CASE UNCHANGED vars
  <2>1. UNCHANGED recallVars /\ UNCHANGED imaginationVars
    BY <1>4 DEF vars
  <2>2. RecallInv' /\ ImaginationInv'
    BY <1>0, <2>1, RecallInvStep, ImaginationStandsStill
  <2> QED BY <1>0, <2>1, <2>2 DEF PlanInv, Handed, recallVars, imaginationVars
<1> QED BY <1>1, <1>2, <1>3, <1>4 DEF Next

LEMMA PlanInvHolds == Spec => []PlanInv
<1>1. Init => PlanInv
  BY PlanInvInit
<1>2. PlanInv /\ [Next]_vars => PlanInv'
  BY PlanInvStep
<1> QED BY <1>1, <1>2, PTL DEF Spec

-----------------------------------------------------------------------------
(* Theorems *)

(* Types: in particular, hops stay within MaxHops and scores within 0 and  *)
(* 1, a packet has only what was handed over, and a scenario only what is  *)
(* in the context it is imagined from.                                     *)
THEOREM PlanningTyped == Spec => []TypeOK
<1>1. PlanInv => TypeOK
  BY ImaginationIsTyped DEF PlanInv, RecallInv, RecallBase, TypeOK
<1> QED BY <1>1, PlanInvHolds, PTL

(* GraphExpander::expand finds exactly the nodes in reach of a hit, each   *)
(* with its distance and its strongest edge, in every graph and for every  *)
(* order in which it visits them.                                          *)
THEOREM ExpansionFindsTheReach == Spec => []ExpansionExact
<1>1. PlanInv => ExpansionExact
  BY ExpansionIsExact DEF PlanInv, RecallInv
<1> QED BY <1>1, PlanInvHolds, PTL

(* What recall_context returns answers the query, and scenarios rest on    *)
(* and aim at nothing else.                                                *)
THEOREM PlansStayOnTopic == Spec => []ScenariosAnswerQuery
<1>1. PlanInv => ScenariosAnswerQuery
  <2> SUFFICES ASSUME PlanInv PROVE ScenariosAnswerQuery
    OBVIOUS
  <2>1. RecallBase /\ Expansion /\ ImaginationInv /\ Handed
    BY DEF PlanInv, RecallInv
  <2>2. recall = "done" => \A n \in packet.nodes : AnswersQuery(n)
    BY <2>1, RankedAnswer DEF RecallBase
  <2>3. ASSUME NEW k \in DOMAIN scenarios
        PROVE  ToSet(scenarios[k].basis) \union {scenarios[k].goal} \subseteq packet.nodes
    <3>1. imagining = "done"
      BY <2>1, NoneFounded DEF ImaginationInv, AllFounded
    <3>2. context.nodes = packet.nodes
      BY <2>1, <3>1 DEF Handed
    <3>3. /\ ToSet(scenarios[k].basis) \subseteq Verified(context)
          /\ scenarios[k].goal \in Verified(context)
      BY <2>1, ScenarioFounded
    <3> QED BY <3>2, <3>3 DEF Verified
  <2> QED BY <2>2, <2>3 DEF ScenariosAnswerQuery
<1> QED BY <1>1, PlanInvHolds, PTL

(* Neither the packet nor a scenario prefers a lesson that rests on none   *)
(* of its nodes to one that does, whatever the confidences and counts.     *)
THEOREM LinkedLessonsWin == Spec => []LinkedLessonsFirst
<1>1. PlanInv => LinkedLessonsFirst
  BY ScenarioFounded DEF PlanInv, RecallInv, LinkedLessonsFirst
<1> QED BY <1>1, PlanInvHolds, PTL

(* connected_clusters: whatever the order of its loops, what it returns    *)
(* are the connected components of the verified nodes.                     *)
THEOREM ComponentsOfTheContext == Spec => []ClustersAreComponents
<1>1. PlanInv => ClustersAreComponents
  BY ComponentsFound DEF PlanInv
<1> QED BY <1>1, PlanInvHolds, PTL

(* The basis of a scenario is connected even when it is cut off at         *)
(* MaxBasisNodes, because a cluster lists its nodes in the order in which  *)
(* they were reached; and nothing imagined gets into it.                   *)
THEOREM BasesAreConnected == Spec => []BasisConnected
<1>1. PlanInv => BasisConnected
  <2> SUFFICES ASSUME ImaginationInv, NEW k \in DOMAIN scenarios
               PROVE  /\ ToSet(scenarios[k].basis) # {}
                      /\ Connected(ToSet(scenarios[k].basis))
                      /\ (ToSet(scenarios[k].basis) \union {scenarios[k].goal})
                           \intersect Imagined = {}
    BY DEF PlanInv, BasisConnected
  <2> QED BY ScenarioFounded DEF Verified
<1> QED BY <1>1, PlanInvHolds, PTL
=============================================================================
