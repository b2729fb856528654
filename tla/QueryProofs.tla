------------------------------ MODULE QueryProofs ------------------------------
(***************************************************************************)
(* What holds of every answer the reading tools give, whatever the graph,  *)
(* the chunks and what is asked for: communities split the nodes, the      *)
(* search of the graph finds every node at its distance, fusion and        *)
(* reranking lose no hit, and nothing is modified on a read-only server.   *)
(***************************************************************************)
EXTENDS QueryTools, DocTree, FiniteSetTheorems, WellFoundedInduction, TLAPS

-----------------------------------------------------------------------------
(* Lemmas on numbers, sets and sequences.                                   *)

IsFirst(n, S) == \A k \in S : n <= k

\* A set of numbers has a least one.
LEMMA FirstExists ==
  ASSUME NEW S, S \subseteq Nat, S # {}
  PROVE  \E n \in S : IsFirst(n, S)
<1>1. PICK n \in S : \A k \in S : ~(<<k, n>> \in OpToRel(<, Nat))
  BY NatLessThanWellFounded, WFMin
<1>2. \A k \in S : ~(k < n)
  BY <1>1 DEF OpToRel
<1> QED
  BY <1>2 DEF IsFirst

\* The sequences SetToSeqs enumerates list the whole set, each member once.
LEMMA SeqsAre ==
  ASSUME NEW S, IsFiniteSet(S), NEW q \in SetToSeqs(S)
  PROVE  /\ q \in Seq(S) /\ Len(q) = Cardinality(S) /\ Len(q) \in Nat
         /\ DOMAIN q = 1..Len(q)
         /\ \A i, j \in 1..Len(q) : q[i] = q[j] => i = j
         /\ \A x \in S : \E i \in 1..Len(q) : q[i] = x
<1> DEFINE C == Cardinality(S)
<1>1. C \in Nat /\ q \in [1..C -> S] /\ \A i, j \in 1..C : i # j => q[i] # q[j]
  BY FS_CardinalityType DEF SetToSeqs
<1> HIDE DEF C
<1>2. q \in Seq(S) /\ Len(q) = C
  BY <1>1
<1>3. q \in Surjection(1..C, S)
  <2>1. IsFiniteSet(1..C) /\ Cardinality(1..C) = C
    BY <1>1, FS_Interval
  <2>2. q \in Injection(1..C, S)
    BY <1>1 DEF Injection, IsInjective
  <2> QED
    BY <2>1, <2>2, FS_Injection DEF C
<1> QED
  BY <1>1, <1>2, <1>3 DEF Surjection, C

\* A subset as large as the whole is the whole.
LEMMA LargestSubset ==
  ASSUME NEW k \in Nat, NEW S, IsFiniteSet(S), NEW H \in FirstOf(k, S)
  PROVE  /\ H \subseteq S /\ IsFiniteSet(H) /\ Cardinality(H) \in Nat
         /\ Cardinality(H) < k => H = S
<1>1. Cardinality(S) \in Nat
  BY FS_CardinalityType
<1>2. H \subseteq S /\ Cardinality(H) = IF k < Cardinality(S) THEN k ELSE Cardinality(S)
  BY DEF FirstOf, kSubset
<1>3. IsFiniteSet(H) /\ Cardinality(H) \in Nat
  BY <1>2, FS_Subset, FS_CardinalityType
<1>4. ASSUME Cardinality(H) < k
      PROVE  H = S
  <2>1. Cardinality(H) = Cardinality(S)
    BY <1>1, <1>2, <1>4
  <2> QED
    BY <1>2, <2>1, FS_Subset
<1> QED
  BY <1>2, <1>3, <1>4

-----------------------------------------------------------------------------
(* The detection of communities.                                            *)

LEMMA GraphIs ==
  ASSUME graph \in DOMAIN Graphs
  PROVE  /\ Nodes = DOMAIN G.links /\ IsFiniteSet(Nodes)
         /\ Len(G.order) \in Nat /\ DOMAIN G.order = 1..Len(G.order)
         /\ \A n \in Nodes : \E i \in 1..Len(G.order) : G.order[i] = n
         /\ \A i \in 1..Len(G.order) : G.order[i] \in Nodes
         /\ \A i, j \in 1..Len(G.order) : G.order[i] = G.order[j] => i = j
         /\ \A n \in Nodes : DOMAIN G.links[n] \subseteq Nodes
<1> DEFINE order == G.order
           nodes == DOMAIN G.links
<1>1. order \in Seq(nodes) /\ ToSet(order) = nodes /\ IsInjective(order)
  BY GraphAssumption DEF G
<1>2. \A n \in nodes : DOMAIN G.links[n] \subseteq nodes
  BY GraphAssumption DEF G
<1>3. Nodes = nodes
  BY <1>1 DEF Nodes
<1> HIDE DEF order, nodes
<1>4. Len(order) \in Nat /\ order \in [1..Len(order) -> nodes]
  BY <1>1
<1>5. order \in Surjection(1..Len(order), nodes)
  BY <1>1, <1>4 DEF Surjection, ToSet
<1>6. IsFiniteSet(nodes)
  BY <1>4, <1>5, FS_Interval, FS_Surjection
<1> QED
  BY <1>1, <1>2, <1>3, <1>4, <1>5, <1>6 DEF Surjection, IsInjective, order, nodes

Positions == [n \in Nodes |-> CHOOSE i \in DOMAIN G.order : G.order[i] = n]

\* The communities are as they are to be: the same in both places, in order.
Split ==
  /\ \A i \in 1..Len(communities) - 1 : Cardinality(communities[i]) >= Cardinality(communities[i + 1])
  /\ \A n \in Nodes : {i \in DOMAIN communities : n \in communities[i]} = {membership[n]}

GraphOK ==
  /\ graph \in DOMAIN Graphs
  /\ phase \in {"detecting", "edgeless", "serving"}
  /\ phase = "edgeless" => membership = Positions
  /\ phase = "serving" => Split

LEMMA InitGraphOK == Init => GraphOK
  BY DEF Init, GraphOK, Positions

\* Whatever the membership, its groups in the order of their sizes split the
\* nodes once membership holds the positions.
LEMMA GroupsSplit ==
  ASSUME GraphOK, NEW seq \in SortedBySize(Groups)
  PROVE  /\ \A i \in 1..Len(seq) - 1 : Cardinality(seq[i]) >= Cardinality(seq[i + 1])
         /\ \A n \in Nodes : {i \in DOMAIN seq : n \in seq[i]} = {Renamed(seq)[n]}
<1> DEFINE group(c) == {n \in Nodes : membership[n] = c}
           f == [n \in Nodes |-> group(membership[n])]
<1>1. IsFiniteSet(Groups)
  <2>1. f \in Surjection(Nodes, Groups)
    <3>1. \A n \in Nodes : f[n] \in Groups
      BY DEF Groups
    <3>2. \A x \in Groups : \E n \in Nodes : x = f[n]
      BY DEF Groups
    <3> HIDE DEF f
    <3>3. f \in [Nodes -> Groups]
      BY <3>1 DEF f
    <3> QED
      BY <3>2, <3>3 DEF Surjection
  <2>2. IsFiniteSet(Nodes)
    BY GraphIs DEF GraphOK
  <2> QED
    BY <2>1, <2>2, FS_Surjection
<1>2. /\ seq \in SetToSeqs(Groups)
      /\ \A i \in 1..Len(seq) - 1 : Cardinality(seq[i]) >= Cardinality(seq[i + 1])
  BY DEF SortedBySize
<1>3. /\ seq \in Seq(Groups) /\ DOMAIN seq = 1..Len(seq)
      /\ \A i, j \in 1..Len(seq) : seq[i] = seq[j] => i = j
      /\ \A x \in Groups : \E i \in 1..Len(seq) : seq[i] = x
  BY <1>1, <1>2, SeqsAre
<1>4. \A i \in 1..Len(seq) : seq[i] \in Groups
  BY <1>3
<1>5. ASSUME NEW n \in Nodes
      PROVE  {i \in DOMAIN seq : n \in seq[i]} = {Renamed(seq)[n]}
  <2> DEFINE own == group(membership[n])
  <2>1. own \in Groups /\ n \in own
    BY DEF Groups
  <2>2. \A x \in Groups : n \in x => x = own
    BY DEF Groups
  <2> HIDE DEF own
  <2>3. PICK i \in 1..Len(seq) : seq[i] = own
    BY <1>3, <2>1
  <2>4. \A j \in 1..Len(seq) : n \in seq[j] <=> j = i
    BY <1>3, <1>4, <2>1, <2>2, <2>3
  <2>5. Renamed(seq)[n] = CHOOSE j \in DOMAIN seq : n \in seq[j]
    BY DEF Renamed
  <2> QED
    BY <1>3, <2>4, <2>5
<1> QED
  BY <1>2, <1>5

LEMMA DetectGraphOK == GraphOK /\ Detect => GraphOK'
<1> SUFFICES ASSUME GraphOK, Detect PROVE GraphOK'
  OBVIOUS
<1>1. CASE Visit
  BY <1>1 DEF GraphOK, Visit
<1>2. CASE NextPass
  BY <1>2 DEF GraphOK, NextPass, PassOver
<1>3. CASE Finish
  <2>1. /\ communities' \in SortedBySize(Groups) /\ membership' = Renamed(communities')
        /\ phase' = "serving" /\ graph' = graph
    BY <1>3 DEF Finish
  <2>2. PICK seq : seq = communities'
    OBVIOUS
  <2>3. /\ \A i \in 1..Len(seq) - 1 : Cardinality(seq[i]) >= Cardinality(seq[i + 1])
        /\ \A n \in Nodes : {i \in DOMAIN seq : n \in seq[i]} = {Renamed(seq)[n]}
    BY <2>1, <2>2, GroupsSplit
  <2>4. Nodes' = Nodes
    BY <2>1 DEF Nodes, G
  <2>5. Split'
    BY <2>1, <2>2, <2>3, <2>4 DEF Split
  <2> QED
    BY <2>1, <2>5 DEF GraphOK
<1>4. CASE FinishEdgeless
  <2>1. /\ membership = Positions /\ membership' = membership /\ phase' = "serving" /\ graph' = graph
        /\ communities' = [i \in DOMAIN G.order |-> {G.order[i]}]
    BY <1>4 DEF FinishEdgeless, GraphOK
  <2>2. Nodes' = Nodes
    BY <2>1 DEF Nodes, G
  <2>3. ASSUME NEW n \in Nodes
        PROVE  {i \in DOMAIN G.order : n = G.order[i]} = {Positions[n]}
    <3>1. PICK i \in DOMAIN G.order : G.order[i] = n
      BY GraphIs DEF GraphOK
    <3>2. \A j \in DOMAIN G.order : G.order[j] = n => j = i
      BY <3>1, GraphIs DEF GraphOK
    <3>3. Positions[n] = i
      BY <3>1, <3>2 DEF Positions
    <3> QED
      BY <3>1, <3>2, <3>3
  <2>4. /\ Len(G.order) \in Nat /\ DOMAIN G.order = 1..Len(G.order)
        /\ Len(communities') = Len(G.order) /\ DOMAIN communities' = DOMAIN G.order
        /\ \A i \in DOMAIN G.order : communities'[i] = {G.order[i]}
    BY <2>1, GraphIs DEF GraphOK
  <2>5. \A i \in DOMAIN G.order : Cardinality(communities'[i]) = 1
    BY <2>4, FS_Singleton
  <2>6. \A i \in 1..Len(communities') - 1 : Cardinality(communities'[i]) >= Cardinality(communities'[i + 1])
    <3> SUFFICES ASSUME NEW i \in 1..Len(communities') - 1
                 PROVE  Cardinality(communities'[i]) >= Cardinality(communities'[i + 1])
      OBVIOUS
    <3>1. i \in DOMAIN G.order /\ i + 1 \in DOMAIN G.order
      BY <2>4
    <3>2. Cardinality(communities'[i]) = 1 /\ Cardinality(communities'[i + 1]) = 1
      BY <2>5, <3>1
    <3> QED
      BY <3>2
  <2>7. Split'
    BY <2>1, <2>2, <2>3, <2>4, <2>6 DEF Split
  <2> QED
    BY <2>1, <2>7 DEF GraphOK
<1> QED
  BY <1>1, <1>2, <1>3, <1>4 DEF Detect

-----------------------------------------------------------------------------
(* Search from the seeds.                                                   *)

Unfolds(g, k, X, base, step) ==
  /\ g \in [0..k -> X] /\ g[0] = base
  /\ \A d \in 1..k : g[d] = step[d][g[d - 1]]

\* A recursive definition on 0..m has a value, whatever its step.
LEMMA RecursionExists ==
  ASSUME NEW m \in Nat, NEW X, NEW base \in X, NEW step \in [Nat -> [X -> X]]
  PROVE  \E g : Unfolds(g, m, X, base, step)
<1> DEFINE U(g, k) == Unfolds(g, k, X, base, step)
           S == {k \in Nat : ~\E g : U(g, k)}
<1> SUFFICES ASSUME S # {} PROVE FALSE
  <2>1. m \notin S => \E g : U(g, m)
    OBVIOUS
  <2> QED
    BY <2>1
<1>1. PICK k \in S : IsFirst(k, S)
  <2>1. S \subseteq Nat
    OBVIOUS
  <2> HIDE DEF S
  <2> QED
    BY <2>1, FirstExists
<1>2. k # 0
  <2>1. U([d \in 0..0 |-> base], 0)
    BY DEF Unfolds
  <2> QED
    BY <1>1, <2>1
<1>3. k \in Nat /\ k - 1 \in Nat /\ ~(k <= k - 1)
  BY <1>1, <1>2
<1>4. PICK g : U(g, k - 1)
  <2>1. k - 1 \notin S
    BY <1>1, <1>3 DEF IsFirst
  <2> QED
    BY <1>3, <2>1
<1>9. /\ g \in [0..(k - 1) -> X] /\ g[0] = base
      /\ \A d \in 1..(k - 1) : g[d] = step[d][g[d - 1]]
  BY <1>4 DEF Unfolds
<1> DEFINE h == [d \in 0..k |-> IF d < k THEN g[d] ELSE step[k][g[k - 1]]]
<1>5. h \in [0..k -> X]
  <2>1. step[k][g[k - 1]] \in X
    BY <1>3, <1>9
  <2>2. \A d \in 0..k : d < k => d \in 0..(k - 1)
    BY <1>3
  <2> QED
    BY <1>9, <2>1, <2>2
<1>6. h[0] = base
  BY <1>2, <1>3, <1>9
<1>7. ASSUME NEW d \in 1..k PROVE h[d] = step[d][h[d - 1]]
  <2>1. h[d - 1] = g[d - 1]
    BY <1>3
  <2>2. CASE d = k
    <3>1. h[k] = step[k][g[k - 1]]
      BY <1>3
    <3> QED
      BY <2>1, <2>2, <3>1
  <2>3. CASE d # k
    <3>1. d \in 1..(k - 1) /\ d < k /\ d \in 0..k
      BY <1>3, <2>3
    <3> QED
      BY <1>9, <2>1, <3>1
  <2> QED
    BY <2>2, <2>3
<1>8. U(h, k)
  <2> HIDE DEF h
  <2> QED
    BY <1>5, <1>6, <1>7 DEF Unfolds
<1> QED
  BY <1>1, <1>8

\* What satisfies the definition is that value.
LEMMA RecursionIs ==
  ASSUME NEW m \in Nat, NEW X, NEW base \in X, NEW step \in [Nat -> [X -> X]],
         NEW w, w = [d \in 0..m |-> w[d]], w[0] = base,
         \A d \in 1..m : w[d - 1] \in X => w[d] = step[d][w[d - 1]]
  PROVE  Unfolds(w, m, X, base, step)
<1> DEFINE S == {d \in 0..m : w[d] \notin X}
<1>1. S = {}
  <2> SUFFICES ASSUME S # {} PROVE FALSE
    OBVIOUS
  <2>1. PICK d \in S : IsFirst(d, S)
    <3>1. S \subseteq Nat
      OBVIOUS
    <3> HIDE DEF S
    <3> QED
      BY <3>1, FirstExists
  <2>2. d # 0 /\ d \in 0..m /\ w[d] \notin X
    BY <2>1
  <2>3. d \in 1..m /\ d - 1 \in 0..m /\ ~(d <= d - 1) /\ d \in Nat
    BY <2>2
  <2>4. w[d - 1] \in X
    BY <2>1, <2>3 DEF IsFirst
  <2>5. w[d] = step[d][w[d - 1]]
    BY <2>3, <2>4
  <2> QED
    BY <2>2, <2>3, <2>4, <2>5
<1>2. \A d \in 0..m : w[d] \in X
  BY <1>1
<1>3. w \in [0..m -> X]
  BY <1>2
<1>4. \A d \in 1..m : w[d] = step[d][w[d - 1]]
  <2> SUFFICES ASSUME NEW d \in 1..m PROVE w[d] = step[d][w[d - 1]]
    OBVIOUS
  <2>1. d - 1 \in 0..m
    OBVIOUS
  <2> QED
    BY <1>2, <2>1
<1> QED
  BY <1>3, <1>4 DEF Unfolds

Closed(links) == \A n \in DOMAIN links : DOMAIN links[n] \subseteq DOMAIN links

Widens(links, seeds, maxHops, near) ==
  /\ near \in [0..maxHops -> SUBSET DOMAIN links] /\ near[0] = seeds
  /\ \A d \in 1..maxHops : near[d] = near[d - 1] \cup Around(links, near[d - 1])

LEMMA NearIs ==
  ASSUME NEW links, Closed(links), NEW seeds, seeds \subseteq DOMAIN links, NEW maxHops \in Nat
  PROVE  Widens(links, seeds, maxHops, Within(links, seeds, maxHops))
<1> DEFINE X == SUBSET DOMAIN links
           step == [d \in Nat |-> [T \in X |-> T \cup Around(links, T)]]
           IsNear(g) == g = [d \in 0..maxHops |-> IF d = 0 THEN seeds
                                                  ELSE g[d - 1] \cup Around(links, g[d - 1])]
<1>1. \A T \in X : T \cup Around(links, T) \in X
  BY DEF Closed, Around
<1>2. step \in [Nat -> [X -> X]]
  <2> HIDE DEF X
  <2> QED
    BY <1>1
<1>3. seeds \in X
  OBVIOUS
<1> HIDE DEF X, step
<1>4. PICK g \in [0..maxHops -> X] : g[0] = seeds /\ \A d \in 1..maxHops : g[d] = step[d][g[d - 1]]
  <2>1. PICK Y, f : Y = X /\ f = step
    OBVIOUS
  <2>2. seeds \in Y /\ f \in [Nat -> [Y -> Y]]
    BY <1>2, <1>3, <2>1
  <2>3. PICK g : Unfolds(g, maxHops, Y, seeds, f)
    BY <2>2, RecursionExists
  <2> QED
    BY <2>1, <2>3 DEF Unfolds
<1>5. ASSUME NEW d \in 1..maxHops PROVE g[d] = g[d - 1] \cup Around(links, g[d - 1])
  <2>1. d \in Nat /\ g[d - 1] \in X
    BY <1>4
  <2>2. step[d][g[d - 1]] = g[d - 1] \cup Around(links, g[d - 1])
    BY <2>1 DEF step
  <2> QED
    BY <1>4, <2>2
<1>6. IsNear(g)
  <2>1. g = [d \in 0..maxHops |-> g[d]]
    BY <1>4
  <2>2. \A d \in 0..maxHops : g[d] = IF d = 0 THEN seeds ELSE g[d - 1] \cup Around(links, g[d - 1])
    <3>1. \A d \in 0..maxHops : d # 0 => d \in 1..maxHops
      OBVIOUS
    <3> QED
      BY <1>4, <1>5, <3>1
  <2> QED
    BY <2>1, <2>2
<1>7. Within(links, seeds, maxHops) = CHOOSE h : IsNear(h)
  BY DEF Within
<1>8. PICK w : w = Within(links, seeds, maxHops)
  OBVIOUS
<1>9. IsNear(w)
  BY <1>6, <1>7, <1>8
<1>10. \A d \in 0..maxHops : w[d] = IF d = 0 THEN seeds ELSE w[d - 1] \cup Around(links, w[d - 1])
  BY <1>9
<1>11. w = [d \in 0..maxHops |-> w[d]] /\ w[0] = seeds
  BY <1>9, <1>10
<1>12. ASSUME NEW d \in 1..maxHops, w[d - 1] \in X
       PROVE  w[d] = step[d][w[d - 1]]
  <2>1. w[d] = w[d - 1] \cup Around(links, w[d - 1])
    <3>1. d \in 0..maxHops /\ d # 0
      OBVIOUS
    <3> QED
      BY <1>10, <3>1, Zenon
  <2> QED
    BY <1>12, <2>1 DEF step
<1> HIDE DEF IsNear
<1>13. Unfolds(w, maxHops, X, seeds, step)
  BY <1>2, <1>3, <1>11, <1>12, RecursionIs
<1> QED
  BY <1>8, <1>10, <1>13 DEF X, Unfolds, Widens

\* One round of the search: from the nodes met in the round before.
Met(links, last) == {j \in Around(links, last.frontier) : last.hops[j] = U32Max}
Round(links, d, last) ==
  [hops |-> [j \in DOMAIN links |-> IF j \in Met(links, last) THEN d ELSE last.hops[j]],
   frontier |-> Met(links, last)]
Seeded(links, seeds) ==
  [hops |-> [n \in DOMAIN links |-> IF n \in seeds THEN 0 ELSE U32Max], frontier |-> seeds]
Searches(links) == [hops : [DOMAIN links -> Nat], frontier : SUBSET DOMAIN links]

LEMMA RoundIsSearch ==
  ASSUME NEW links, Closed(links), NEW d \in Nat, NEW last \in Searches(links)
  PROVE  Round(links, d, last) \in Searches(links)
<1>1. Met(links, last) \subseteq DOMAIN links
  BY DEF Met, Around, Closed, Searches
<1>2. last.hops \in [DOMAIN links -> Nat]
  BY DEF Searches
<1>3. [j \in DOMAIN links |-> IF j \in Met(links, last) THEN d ELSE last.hops[j]] \in [DOMAIN links -> Nat]
  BY <1>2
<1> QED
  BY <1>1, <1>3 DEF Round, Searches

LEMMA BfsIs ==
  ASSUME NEW links, Closed(links), NEW seeds, seeds \subseteq DOMAIN links, NEW maxHops \in Nat
  PROVE  /\ Bfs(links, seeds, maxHops) \in [0..maxHops -> Searches(links)]
         /\ Bfs(links, seeds, maxHops)[0] = Seeded(links, seeds)
         /\ \A d \in 1..maxHops :
              Bfs(links, seeds, maxHops)[d] = Round(links, d, Bfs(links, seeds, maxHops)[d - 1])
<1> DEFINE X == Searches(links)
           base == Seeded(links, seeds)
           step == [d \in Nat |-> [last \in X |-> Round(links, d, last)]]
           IsBfs(g) == g = [d \in 0..maxHops |-> IF d = 0 THEN base ELSE Round(links, d, g[d - 1])]
<1>1. step \in [Nat -> [X -> X]]
  <2> HIDE DEF X
  <2> QED
    BY RoundIsSearch DEF X
<1>2. base \in X
  <2>1. U32Max \in Nat
    BY GraphAssumption
  <2>2. [n \in DOMAIN links |-> IF n \in seeds THEN 0 ELSE U32Max] \in [DOMAIN links -> Nat]
    BY <2>1
  <2> QED
    BY <2>2 DEF Seeded, Searches
<1>3. Bfs(links, seeds, maxHops) = CHOOSE g : IsBfs(g)
  BY DEF Bfs, Round, Met, Seeded
<1> HIDE DEF X, step, base
<1>4. PICK g : Unfolds(g, maxHops, X, base, step)
  <2>1. PICK Y, b, f : Y = X /\ b = base /\ f = step
    OBVIOUS
  <2>2. b \in Y /\ f \in [Nat -> [Y -> Y]]
    BY <1>1, <1>2, <2>1
  <2>3. PICK g : Unfolds(g, maxHops, Y, b, f)
    BY <2>2, RecursionExists
  <2> QED
    BY <2>1, <2>3
<1>5. ASSUME NEW d \in 1..maxHops PROVE g[d] = Round(links, d, g[d - 1])
  <2>1. d \in Nat /\ g[d - 1] \in X
    BY <1>4 DEF Unfolds
  <2>2. step[d][g[d - 1]] = Round(links, d, g[d - 1])
    BY <2>1 DEF step
  <2> QED
    BY <1>4, <2>2 DEF Unfolds
<1>6. IsBfs(g)
  <2>1. g = [d \in 0..maxHops |-> g[d]]
    BY <1>4 DEF Unfolds
  <2>2. \A d \in 0..maxHops : g[d] = IF d = 0 THEN base ELSE Round(links, d, g[d - 1])
    <3>1. \A d \in 0..maxHops : d # 0 => d \in 1..maxHops
      OBVIOUS
    <3> QED
      BY <1>4, <1>5, <3>1 DEF Unfolds
  <2> QED
    BY <2>1, <2>2
<1>7. PICK w : w = Bfs(links, seeds, maxHops)
  OBVIOUS
<1>8. IsBfs(w)
  BY <1>3, <1>6, <1>7
<1>9. \A d \in 0..maxHops : w[d] = IF d = 0 THEN base ELSE Round(links, d, w[d - 1])
  BY <1>8
<1>10. w = [d \in 0..maxHops |-> w[d]] /\ w[0] = base
  BY <1>8, <1>9
<1>11. \A d \in 1..maxHops : w[d - 1] \in X => w[d] = step[d][w[d - 1]]
  BY <1>9 DEF step
<1> HIDE DEF IsBfs
<1>12. Unfolds(w, maxHops, X, base, step)
  <2>1. PICK Y, b, f : Y = X /\ b = base /\ f = step
    OBVIOUS
  <2>2. b \in Y /\ f \in [Nat -> [Y -> Y]]
    BY <1>1, <1>2, <2>1
  <2>3. w[0] = b /\ \A d \in 1..maxHops : w[d - 1] \in Y => w[d] = f[d][w[d - 1]]
    BY <1>10, <1>11, <2>1
  <2>4. Unfolds(w, maxHops, Y, b, f)
    BY <1>10, <2>2, <2>3, RecursionIs
  <2> QED
    BY <2>1, <2>4
<1>13. \A d \in 1..maxHops : w[d] = Round(links, d, w[d - 1])
  BY <1>9
<1> QED
  BY <1>7, <1>10, <1>12, <1>13 DEF X, Unfolds, base

LEMMA NearGrows ==
  ASSUME NEW links, Closed(links), NEW seeds, seeds \subseteq DOMAIN links, NEW maxHops \in Nat,
         NEW a \in 0..maxHops
  PROVE  \A b \in 0..maxHops : a <= b =>
           Within(links, seeds, maxHops)[a] \subseteq Within(links, seeds, maxHops)[b]
<1> DEFINE near == Within(links, seeds, maxHops)
           S == {b \in 0..maxHops : a <= b /\ ~(near[a] \subseteq near[b])}
<1>1. \A d \in 1..maxHops : near[d - 1] \subseteq near[d]
  <2>1. \A d \in 1..maxHops : near[d] = near[d - 1] \cup Around(links, near[d - 1])
    BY NearIs DEF Widens
  <2> HIDE DEF near
  <2> QED
    BY <2>1
<1> HIDE DEF near
<1> SUFFICES ASSUME S # {} PROVE FALSE
  BY DEF near
<1>2. PICK b \in S : IsFirst(b, S)
  <2>1. S \subseteq Nat
    OBVIOUS
  <2> HIDE DEF S
  <2> QED
    BY <2>1, FirstExists
<1>3. b # a /\ b \in 1..maxHops /\ b - 1 \in 0..maxHops /\ a <= b - 1 /\ ~(b <= b - 1)
  BY <1>2
<1>4. near[a] \subseteq near[b - 1]
  BY <1>2, <1>3 DEF IsFirst
<1> QED
  BY <1>1, <1>2, <1>3, <1>4

\* After d rounds the nodes within d hops have their distance, the others
\* none, and the frontier is the nodes d hops away.
Measured(links, near, d, s) ==
  /\ \A n \in near[d] : /\ s.hops[n] \in 0..d
                        /\ n \in near[s.hops[n]]
                        /\ s.hops[n] > 0 => n \notin near[s.hops[n] - 1]
  /\ \A n \in DOMAIN links \ near[d] : s.hops[n] = U32Max
  /\ s.frontier = {n \in DOMAIN links : s.hops[n] = d}

LEMMA RoundMeasures ==
  ASSUME NEW links, Closed(links), NEW seeds, seeds \subseteq DOMAIN links,
         NEW maxHops \in Nat, maxHops < U32Max, NEW d \in 1..maxHops,
         NEW last \in Searches(links), Measured(links, Within(links, seeds, maxHops), d - 1, last)
  PROVE  Measured(links, Within(links, seeds, maxHops), d, Round(links, d, last))
<1>1. PICK near : near = Within(links, seeds, maxHops)
  OBVIOUS
<1>2. /\ near \in [0..maxHops -> SUBSET DOMAIN links]
      /\ near[d] = near[d - 1] \cup Around(links, near[d - 1])
      /\ \A b \in 1..maxHops : near[b] = near[b - 1] \cup Around(links, near[b - 1])
  <2>1. Widens(links, seeds, maxHops, near)
    BY <1>1, NearIs
  <2> QED
    BY <2>1 DEF Widens
<1>3. \A a, b \in 0..maxHops : a <= b => near[a] \subseteq near[b]
  BY <1>1, NearGrows
<1>4. /\ d \in Nat /\ d - 1 \in 0..maxHops /\ d \in 0..maxHops /\ U32Max \in Nat
      /\ last.hops \in [DOMAIN links -> Nat]
  BY GraphAssumption DEF Searches
<1>5. /\ \A n \in near[d - 1] : /\ last.hops[n] \in 0..(d - 1)
                                /\ n \in near[last.hops[n]]
                                /\ last.hops[n] > 0 => n \notin near[last.hops[n] - 1]
      /\ \A n \in DOMAIN links \ near[d - 1] : last.hops[n] = U32Max
      /\ last.frontier = {n \in DOMAIN links : last.hops[n] = d - 1}
  BY <1>1 DEF Measured
<1>6. near[d - 1] \subseteq DOMAIN links /\ near[d] \subseteq DOMAIN links
  BY <1>2, <1>4
<1>7. \A n \in DOMAIN links : last.hops[n] = U32Max <=> n \notin near[d - 1]
  BY <1>4, <1>5, <1>6
<1>8. \A m \in near[d - 1] : m \notin last.frontier => DOMAIN links[m] \subseteq near[d - 1]
  <2> SUFFICES ASSUME NEW m \in near[d - 1], m \notin last.frontier
               PROVE  DOMAIN links[m] \subseteq near[d - 1]
    OBVIOUS
  <2>1. PICK h : h = last.hops[m]
    OBVIOUS
  <2>2. h \in 0..(d - 1) /\ m \in near[h] /\ h # d - 1
    BY <1>5, <1>6, <2>1
  <2>3. h + 1 \in 1..maxHops /\ h + 1 <= d - 1 /\ (h + 1) - 1 = h /\ h + 1 \in 0..maxHops
    BY <1>4, <2>2
  <2>4. DOMAIN links[m] \subseteq near[h + 1]
    BY <1>2, <2>2, <2>3 DEF Around
  <2> QED
    BY <1>3, <1>4, <2>3, <2>4
<1>9. Met(links, last) = near[d] \ near[d - 1]
  <2>1. last.frontier \subseteq near[d - 1]
    <3>1. \A n \in DOMAIN links : last.hops[n] = d - 1 => last.hops[n] # U32Max
      BY <1>4
    <3> QED
      BY <1>5, <1>7, <3>1
  <2>2. ASSUME NEW j \in Met(links, last)
        PROVE  j \in near[d] \ near[d - 1]
    <3>1. j \in Around(links, last.frontier) /\ last.hops[j] = U32Max
      BY <2>2 DEF Met
    <3>2. j \in Around(links, near[d - 1])
      BY <2>1, <3>1 DEF Around
    <3>3. j \in near[d] /\ j \in DOMAIN links
      BY <1>2, <1>6, <3>2
    <3> QED
      BY <1>7, <3>1, <3>3
  <2>3. ASSUME NEW j \in near[d], j \notin near[d - 1]
        PROVE  j \in Met(links, last)
    <3>1. PICK m \in near[d - 1] : j \in DOMAIN links[m]
      BY <1>2, <2>3 DEF Around
    <3>2. m \in last.frontier
      BY <1>8, <2>3, <3>1
    <3>3. last.hops[j] = U32Max
      BY <1>6, <1>7, <2>3
    <3> QED
      BY <3>1, <3>2, <3>3 DEF Met, Around
  <2> QED
    BY <2>2, <2>3
<1>10. PICK s : s = Round(links, d, last)
  OBVIOUS
<1>11. /\ s.frontier = near[d] \ near[d - 1]
       /\ \A j \in DOMAIN links : s.hops[j] = IF j \in near[d] \ near[d - 1] THEN d ELSE last.hops[j]
  BY <1>9, <1>10 DEF Round
<1>12. ASSUME NEW n \in near[d]
       PROVE  /\ s.hops[n] \in 0..d /\ n \in near[s.hops[n]]
              /\ s.hops[n] > 0 => n \notin near[s.hops[n] - 1]
  <2>1. n \in DOMAIN links
    BY <1>6
  <2>2. CASE n \in near[d - 1]
    <3>1. s.hops[n] = last.hops[n]
      BY <1>11, <2>1, <2>2
    <3> QED
      BY <1>4, <1>5, <2>2, <3>1
  <2>3. CASE n \notin near[d - 1]
    <3>1. s.hops[n] = d
      BY <1>11, <2>1, <2>3
    <3> QED
      BY <1>4, <2>3, <3>1
  <2> QED
    BY <2>2, <2>3
<1>13. ASSUME NEW n \in DOMAIN links \ near[d]
       PROVE  s.hops[n] = U32Max
  BY <1>2, <1>7, <1>11
<1>14. s.frontier = {n \in DOMAIN links : s.hops[n] = d}
  <2>1. ASSUME NEW n \in DOMAIN links
        PROVE  n \in near[d] \ near[d - 1] <=> s.hops[n] = d
    <3>1. CASE n \in near[d - 1]
      <4>1. s.hops[n] \in 0..(d - 1)
        BY <1>5, <1>11, <3>1
      <4> QED
        BY <1>4, <3>1, <4>1
    <3>2. CASE n \in near[d] \ near[d - 1]
      BY <1>11, <3>2
    <3>3. CASE n \notin near[d]
      <4>1. s.hops[n] = U32Max
        BY <1>13, <3>3
      <4> QED
        BY <1>4, <3>3, <4>1
    <3> QED
      BY <3>1, <3>2, <3>3
  <2> QED
    BY <1>6, <1>11, <2>1
<1> QED
  BY <1>1, <1>10, <1>12, <1>13, <1>14 DEF Measured

LEMMA BfsMeasures ==
  ASSUME NEW links, Closed(links), NEW seeds, seeds \subseteq DOMAIN links,
         NEW maxHops \in Nat, maxHops < U32Max
  PROVE  \A d \in 0..maxHops :
           Measured(links, Within(links, seeds, maxHops), d, Bfs(links, seeds, maxHops)[d])
<1>1. PICK near, bfs : near = Within(links, seeds, maxHops) /\ bfs = Bfs(links, seeds, maxHops)
  OBVIOUS
<1>2. /\ bfs \in [0..maxHops -> Searches(links)] /\ bfs[0] = Seeded(links, seeds)
      /\ \A d \in 1..maxHops : bfs[d] = Round(links, d, bfs[d - 1])
  BY <1>1, BfsIs
<1>3. near[0] = seeds
  <2>1. Widens(links, seeds, maxHops, near)
    BY <1>1, NearIs
  <2> QED
    BY <2>1 DEF Widens
<1>4. Measured(links, near, 0, bfs[0])
  <2>1. U32Max \in Nat /\ U32Max > 0
    BY GraphAssumption
  <2>2. bfs[0].frontier = seeds /\ \A n \in DOMAIN links : bfs[0].hops[n] = IF n \in seeds THEN 0 ELSE U32Max
    BY <1>2 DEF Seeded
  <2>3. seeds = {n \in DOMAIN links : bfs[0].hops[n] = 0}
    BY <2>1, <2>2
  <2> QED
    BY <1>3, <2>1, <2>2, <2>3 DEF Measured
<1> DEFINE S == {d \in 0..maxHops : ~Measured(links, near, d, bfs[d])}
<1> SUFFICES ASSUME S # {} PROVE FALSE
  BY <1>1
<1>5. PICK d \in S : IsFirst(d, S)
  <2>1. S \subseteq Nat
    OBVIOUS
  <2> HIDE DEF S
  <2> QED
    BY <2>1, FirstExists
<1>6. d # 0
  BY <1>4, <1>5
<1>7. d \in 1..maxHops /\ d - 1 \in 0..maxHops /\ ~(d <= d - 1)
  BY <1>5, <1>6
<1>8. Measured(links, near, d - 1, bfs[d - 1])
  BY <1>5, <1>7 DEF IsFirst
<1>9. Measured(links, near, d, Round(links, d, bfs[d - 1]))
  BY <1>1, <1>2, <1>7, <1>8, RoundMeasures
<1> QED
  BY <1>2, <1>5, <1>7, <1>9

\* Nothing is near nothing.
LEMMA NothingIsNear ==
  ASSUME NEW links, Closed(links), NEW maxHops \in Nat
  PROVE  Within(links, {}, maxHops)[maxHops] = {}
<1>1. PICK near : near = Within(links, {}, maxHops)
  OBVIOUS
<1>2. /\ near[0] = {}
      /\ \A d \in 1..maxHops : near[d] = near[d - 1] \cup Around(links, near[d - 1])
  <2>1. Widens(links, {}, maxHops, near)
    BY <1>1, NearIs
  <2> QED
    BY <2>1 DEF Widens
<1>3. Around(links, {}) = {}
  BY DEF Around
<1> DEFINE S == {d \in 0..maxHops : near[d] # {}}
<1>4. S = {}
  <2> SUFFICES ASSUME S # {} PROVE FALSE
    OBVIOUS
  <2>1. PICK d \in S : IsFirst(d, S)
    <3>1. S \subseteq Nat
      OBVIOUS
    <3> HIDE DEF S
    <3> QED
      BY <3>1, FirstExists
  <2>2. d # 0 /\ d \in 0..maxHops
    BY <1>2, <2>1
  <2>3. d \in 1..maxHops /\ d - 1 \in 0..maxHops /\ ~(d <= d - 1)
    BY <2>2
  <2>4. near[d - 1] = {}
    BY <2>1, <2>3 DEF IsFirst
  <2>5. near[d] = {}
    BY <1>2, <1>3, <2>3, <2>4
  <2> QED
    BY <2>1, <2>5
<1> QED
  BY <1>1, <1>4

\* What a search in the graph finds is within reach of its seeds.
LEMMA WalkIsWithinReach ==
  ASSUME graph \in DOMAIN Graphs, NEW seeds, NEW maxHops \in Nat, NEW topK \in Nat,
         NEW h \in Walk(seeds, maxHops, topK)
  PROVE  HitsAreWithinReach([seeds |-> seeds, hits |-> h], maxHops, topK)
<1>1. PICK links, known : links = G.links /\ known = seeds \cap Nodes
  OBVIOUS
<1>2. Closed(links) /\ Nodes = DOMAIN links /\ known \subseteq DOMAIN links /\ IsFiniteSet(Nodes)
  BY <1>1, GraphIs DEF Closed
<1>3. PICK near, hops : /\ near = Within(links, known, maxHops)
                        /\ hops = Bfs(links, known, maxHops)[maxHops].hops
  OBVIOUS
<1>4. SUFFICES ASSUME maxHops < U32Max
               PROVE  /\ \A n \in DOMAIN h : /\ h[n] \in 0..maxHops
                                             /\ n \in near[h[n]]
                                             /\ h[n] > 0 => n \notin near[h[n] - 1]
                      /\ Cardinality(DOMAIN h) < topK => DOMAIN h = near[maxHops]
  BY <1>1, <1>3 DEF HitsAreWithinReach
<1>5. CASE known = {}
  <2>1. h = <<>>
    BY <1>1, <1>5 DEF Walk
  <2>2. DOMAIN h = {}
    BY <2>1
  <2>3. near[maxHops] = {}
    BY <1>2, <1>3, <1>5, NothingIsNear
  <2> QED
    BY <2>2, <2>3
<1>6. CASE known # {}
  <2>1. PICK H \in Surfaced(hops, maxHops, topK) : h = [n \in H |-> hops[n]]
    BY <1>1, <1>3, <1>6 DEF Walk, Hops
  <2>2. PICK bfs : bfs = Bfs(links, known, maxHops)
    OBVIOUS
  <2>3. Measured(links, near, maxHops, bfs[maxHops])
    <3>1. maxHops \in 0..maxHops
      OBVIOUS
    <3> QED
      BY <1>2, <1>3, <1>4, <2>2, <3>1, BfsMeasures
  <2>4. /\ \A n \in near[maxHops] : /\ hops[n] \in 0..maxHops
                                    /\ n \in near[hops[n]]
                                    /\ hops[n] > 0 => n \notin near[hops[n] - 1]
        /\ \A n \in DOMAIN links \ near[maxHops] : hops[n] = U32Max
    BY <1>3, <2>2, <2>3 DEF Measured
  <2>5. near[maxHops] \subseteq DOMAIN links
    <3>1. Widens(links, known, maxHops, near)
      BY <1>2, <1>3, NearIs
    <3> QED
      BY <3>1 DEF Widens
  <2>6. {n \in Nodes : hops[n] <= maxHops} = near[maxHops]
    <3>1. U32Max \in Nat /\ ~(U32Max <= maxHops)
      BY <1>4, GraphAssumption
    <3> QED
      BY <1>2, <2>4, <2>5, <3>1
  <2>7. H \in FirstOf(topK, near[maxHops]) /\ IsFiniteSet(near[maxHops])
    BY <1>2, <2>1, <2>5, <2>6, FS_Subset DEF Surfaced
  <2>8. H \subseteq near[maxHops] /\ (Cardinality(H) < topK => H = near[maxHops])
    BY <2>7, LargestSubset
  <2>9. DOMAIN h = H /\ \A n \in H : h[n] = hops[n]
    BY <2>1
  <2> QED
    BY <2>4, <2>8, <2>9
<1> QED
  BY <1>5, <1>6

-----------------------------------------------------------------------------
(* Search in the knowledge base.                                            *)

\* Among the divisors of m up to m, a greater one has no greater quotient.
LEMMA Quotients ==
  ASSUME NEW m \in Nat, NEW a \in 1..m, NEW b \in 1..m, a <= b
  PROVE  /\ m \div a \in Nat /\ m \div b \in Nat
         /\ m \div b >= 1 /\ m \div b <= m \div a
<1>1. PICK p, q, x, y : p = m \div a /\ q = m \div b /\ x = m % a /\ y = m % b
  OBVIOUS
<1>2. a \in Nat /\ b \in Nat /\ a > 0 /\ b > 0 /\ b <= m
  OBVIOUS
<1>3. p \in Int /\ x \in 0..(a - 1) /\ m = a * p + x
  BY <1>1, <1>2
<1>4. q \in Int /\ y \in 0..(b - 1) /\ m = b * q + y
  BY <1>1, <1>2
<1>5. q >= 1
  <2>1. ASSUME q <= 0
        PROVE  b * q <= 0
    BY <1>2, <1>4, <2>1
  <2> QED
    BY <1>2, <1>4, <2>1
<1>6. q <= p
  <2> SUFFICES ASSUME q >= p + 1 PROVE FALSE
    BY <1>3, <1>4
  <2>1. a * (p + 1) = a * p + a
    BY <1>2, <1>3
  <2>2. a * (p + 1) <= a * q
    BY <1>2, <1>3, <1>4
  <2>3. a * q <= b * q
    BY <1>2, <1>4, <1>5
  <2>4. a * p \in Int /\ a * q \in Int /\ b * q \in Int
    BY <1>2, <1>3, <1>4
  <2> QED
    BY <1>2, <1>3, <1>4, <2>1, <2>2, <2>3, <2>4
<1> QED
  BY <1>1, <1>3, <1>4, <1>5, <1>6

\* A sequence in which no step goes up never goes up.
LEMMA Descends ==
  ASSUME NEW n \in Nat, NEW f \in [1..n -> Int], \A k \in 1..n - 1 : f[k] >= f[k + 1],
         NEW a \in 1..n
  PROVE  \A b \in 1..n : a <= b => f[a] >= f[b]
<1> DEFINE S == {b \in 1..n : a <= b /\ ~(f[a] >= f[b])}
<1> SUFFICES ASSUME S # {} PROVE FALSE
  OBVIOUS
<1>1. PICK b \in S : IsFirst(b, S)
  <2>1. S \subseteq Nat
    OBVIOUS
  <2> HIDE DEF S
  <2> QED
    BY <2>1, FirstExists
<1>2. b # a /\ b \in 1..n /\ b - 1 \in 1..n - 1 /\ a <= b - 1 /\ ~(b <= b - 1) /\ (b - 1) + 1 = b
  BY <1>1
<1>3. f[a] >= f[b - 1]
  BY <1>1, <1>2 DEF IsFirst
<1>4. f[b - 1] >= f[(b - 1) + 1] /\ f[a] \in Int /\ f[b - 1] \in Int /\ f[b] \in Int
  BY <1>2
<1> QED
  BY <1>1, <1>2, <1>3, <1>4

IsRanking(r, S) ==
  /\ r \in Seq(S) /\ Len(r) \in Nat /\ DOMAIN r = 1..Len(r)
  /\ \A i, j \in 1..Len(r) : r[i] = r[j] => i = j

LEMMA TruncatedIs ==
  ASSUME NEW S, NEW r, IsRanking(r, S), NEW n \in Nat
  PROVE  /\ IsRanking(Kb!Truncated(r, n), S)
         /\ Len(Kb!Truncated(r, n)) = IF Len(r) <= n THEN Len(r) ELSE n
         /\ \A i \in 1..Len(Kb!Truncated(r, n)) : Kb!Truncated(r, n)[i] = r[i]
<1>1. CASE Len(r) <= n
  BY <1>1 DEF Kb!Truncated, IsRanking
<1>2. CASE ~(Len(r) <= n)
  <2>1. r \in Seq(S) /\ Len(r) \in Nat /\ n <= Len(r)
    BY <1>2 DEF IsRanking
  <2> DEFINE t == SubSeq(r, 1, n)
  <2>2. Kb!Truncated(r, n) = t
    BY <1>2 DEF Kb!Truncated
  <2>3. t \in Seq(S) /\ Len(t) = n
    BY <2>1
  <2>4. \A i \in 1..n : t[i] = r[i]
    BY <2>1
  <2> HIDE DEF t
  <2>5. DOMAIN t = 1..Len(t)
    BY <2>3
  <2>6. \A i, j \in 1..n : r[i] = r[j] => i = j
    BY <2>1 DEF IsRanking
  <2> QED
    BY <1>2, <2>2, <2>3, <2>4, <2>5, <2>6 DEF IsRanking
<1> QED
  BY <1>1, <1>2

\* The operators of the library mean the same in Retrieval.
LEMMA SameCardinality == \A S : Kb!Cardinality(S) = Cardinality(S)
  BY Zenon DEF Kb!Cardinality, Cardinality

LEMMA SameSeqs == \A S : Kb!SetToSeqs(S) = SetToSeqs(S)
  BY SameCardinality, Zenon DEF Kb!SetToSeqs, SetToSeqs

LEMMA RankingsAre ==
  ASSUME NEW S, IsFiniteSet(S), NEW n \in Nat, NEW r \in Kb!Rankings(S, n)
  PROVE  IsRanking(r, S) /\ Len(r) <= n
<1>1. PICK s \in SetToSeqs(S) : r = Kb!Truncated(s, n)
  BY SameSeqs DEF Kb!Rankings
<1>2. IsRanking(s, S)
  BY SeqsAre DEF IsRanking
<1> QED
  BY <1>1, <1>2, TruncatedIs DEF IsRanking

LEMMA ContributionIs ==
  ASSUME NEW S, NEW r, IsRanking(r, S)
  PROVE  /\ \A k \in 1..Len(r) : Kb!Contribution(r, r[k]) = Kb!Scale \div (Kb!RrfK + k)
         /\ \A i : i \notin ToSet(r) => Kb!Contribution(r, i) = 0
<1>1. ASSUME NEW k \in 1..Len(r)
      PROVE  Kb!Contribution(r, r[k]) = Kb!Scale \div (Kb!RrfK + k)
  <2>1. r[k] \in Kb!ToSet(r)
    BY DEF Kb!ToSet, IsRanking
  <2>2. (CHOOSE p \in DOMAIN r : r[p] = r[k]) = k
    BY DEF IsRanking
  <2> QED
    BY <2>1, <2>2 DEF Kb!Contribution
<1>2. ASSUME NEW i, i \notin ToSet(r)
      PROVE  Kb!Contribution(r, i) = 0
  BY <1>2 DEF Kb!Contribution, Kb!ToSet, ToSet
<1> QED
  BY <1>1, <1>2

\* A chunk that both rankings have scores higher than one that a single
\* ranking has at no better a rank.
LEMMA ConsensusScores ==
  ASSUME NEW S, NEW d, NEW s, IsRanking(d, S), IsRanking(s, S),
         Len(d) <= CandidatePool, Len(s) <= CandidatePool,
         NEW i, NEW x, NEW kd \in 1..Len(d), NEW ks \in 1..Len(s), d[kd] = i, s[ks] = i,
         NEW k \in Nat, kd <= k \/ ks <= k,
         \/ k \in 1..Len(d) /\ d[k] = x /\ x \notin ToSet(s)
         \/ k \in 1..Len(s) /\ s[k] = x /\ x \notin ToSet(d)
  PROVE  /\ Kb!FusedScore(d, s, i) \in Int /\ Kb!FusedScore(d, s, x) \in Int
         /\ Kb!FusedScore(d, s, i) > Kb!FusedScore(d, s, x)
<1> DEFINE q(n) == Kb!Scale \div (Kb!RrfK + n)
<1>1. Kb!Scale \in Nat /\ Kb!RrfK \in Nat
  BY DEF Kb!Scale, Kb!RrfK
<1>2. CandidatePool \in 1..(Kb!Scale - Kb!RrfK)
  BY QueryAssumption
<1>3. Len(d) \in Nat /\ Len(s) \in Nat
  BY DEF IsRanking
<1>4. \A n \in 1..CandidatePool : Kb!RrfK + n \in 1..Kb!Scale
  BY <1>1, <1>2
<1>5. kd \in 1..CandidatePool /\ ks \in 1..CandidatePool /\ k \in 1..CandidatePool
  BY <1>2, <1>3
<1>6. \A m, n \in 1..CandidatePool : m <= n => q(m) \in Nat /\ q(n) \in Nat /\ q(n) >= 1 /\ q(n) <= q(m)
  <2> SUFFICES ASSUME NEW m \in 1..CandidatePool, NEW n \in 1..CandidatePool, m <= n
               PROVE  q(m) \in Nat /\ q(n) \in Nat /\ q(n) >= 1 /\ q(n) <= q(m)
    OBVIOUS
  <2>1. PICK a, b, z : a = Kb!RrfK + m /\ b = Kb!RrfK + n /\ z = Kb!Scale
    OBVIOUS
  <2>2. a \in 1..z /\ b \in 1..z /\ a <= b /\ z \in Nat
    BY <1>1, <1>2, <1>4, <2>1
  <2>3. z \div a \in Nat /\ z \div b \in Nat /\ z \div b >= 1 /\ z \div b <= z \div a
    BY <2>2, Quotients
  <2> QED
    BY <2>1, <2>3
<1>7. Kb!FusedScore(d, s, i) = q(kd) + q(ks)
  BY ContributionIs DEF Kb!FusedScore
<1>8. Kb!FusedScore(d, s, x) = q(k)
  <2>1. q(k) \in Nat
    BY <1>2, <1>5, <1>6
  <2>2. CASE k \in 1..Len(d) /\ d[k] = x /\ x \notin ToSet(s)
    <3>1. Kb!Contribution(d, x) = q(k) /\ Kb!Contribution(s, x) = 0
      BY <2>2, ContributionIs
    <3> HIDE DEF q
    <3> QED
      BY <2>1, <3>1 DEF Kb!FusedScore
  <2>3. CASE k \in 1..Len(s) /\ s[k] = x /\ x \notin ToSet(d)
    <3>1. Kb!Contribution(s, x) = q(k) /\ Kb!Contribution(d, x) = 0
      BY <2>3, ContributionIs
    <3> HIDE DEF q
    <3> QED
      BY <2>1, <3>1 DEF Kb!FusedScore
  <2> QED
    BY <2>2, <2>3
<1> HIDE DEF q
<1>9. q(kd) \in Nat /\ q(ks) \in Nat /\ q(k) \in Nat /\ q(kd) >= 1 /\ q(ks) >= 1
  BY <1>2, <1>5, <1>6
<1>10. q(k) <= q(kd) \/ q(k) <= q(ks)
  BY <1>5, <1>6
<1> QED
  BY <1>7, <1>8, <1>9, <1>10

Found(d, s) == ToSet(d) \cup ToSet(s)
FusedOrder(q, d, s) ==
  /\ IsRanking(q, Found(d, s)) /\ Len(q) = Cardinality(Found(d, s))
  /\ \A x \in Found(d, s) : \E i \in 1..Len(q) : q[i] = x
  /\ \A k \in 1..Len(q) - 1 : Kb!FusedScore(d, s, q[k]) >= Kb!FusedScore(d, s, q[k + 1])

IsFused(fused, d, s, cap) == \E q : FusedOrder(q, d, s) /\ fused = Kb!Truncated(q, cap)

LEMMA PoolIs == CandidatePool \in Nat
<1>1. Kb!Scale - Kb!RrfK \in Int
  BY DEF Kb!Scale, Kb!RrfK
<1> QED
  BY <1>1, QueryAssumption

\* The order of fusion: every chunk found, the higher score first, cut off.
LEMMA FusionIs ==
  ASSUME NEW S, IsFiniteSet(S), NEW d, NEW s, IsRanking(d, S), IsRanking(s, S),
         NEW cap \in Nat, NEW fused \in Kb!ReciprocalRankFusion(d, s, cap)
  PROVE  /\ Found(d, s) \subseteq S /\ Cardinality(Found(d, s)) \in Nat
         /\ IsFused(fused, d, s, cap)
<1> DEFINE found == Found(d, s)
           score == [i \in found |-> Kb!FusedScore(d, s, i)]
<1>1. found \subseteq S
  BY DEF ToSet, IsRanking, Found
<1>2. IsFiniteSet(found) /\ Cardinality(found) \in Nat
  BY <1>1, FS_Subset, FS_CardinalityType
<1>3. Kb!ToSet(d) \cup Kb!ToSet(s) = found
  BY DEF Kb!ToSet, ToSet, Found
<1>4. PICK q \in Kb!SetToSeqs(DOMAIN score) :
        /\ \A k \in 1..Len(q) - 1 : score[q[k]] >= score[q[k + 1]]
        /\ fused = Kb!Truncated(q, cap)
  BY <1>3 DEF Kb!ReciprocalRankFusion
<1>5. q \in SetToSeqs(found)
  BY <1>4, SameSeqs
<1>6. /\ q \in Seq(found) /\ Len(q) = Cardinality(found) /\ Len(q) \in Nat
      /\ DOMAIN q = 1..Len(q)
      /\ \A i, j \in 1..Len(q) : q[i] = q[j] => i = j
      /\ \A x \in found : \E i \in 1..Len(q) : q[i] = x
  BY <1>2, <1>5, SeqsAre
<1>7. \A k \in 1..Len(q) : q[k] \in found
  BY <1>6
<1>8. ASSUME NEW k \in 1..Len(q) - 1
      PROVE  Kb!FusedScore(d, s, q[k]) >= Kb!FusedScore(d, s, q[k + 1])
  <2>1. k \in 1..Len(q) /\ k + 1 \in 1..Len(q)
    BY <1>6
  <2>2. score[q[k]] >= score[q[k + 1]]
    BY <1>4
  <2> QED
    BY <1>7, <2>1, <2>2
<1>9. IsRanking(q, found)
  BY <1>6 DEF IsRanking
<1>10. FusedOrder(q, d, s)
  BY <1>6, <1>8, <1>9 DEF FusedOrder
<1> QED
  BY <1>1, <1>2, <1>4, <1>10 DEF IsFused

LEMMA ScoresAreInt ==
  ASSUME NEW S, NEW d, NEW s, IsRanking(d, S), IsRanking(s, S),
         Len(d) <= CandidatePool, Len(s) <= CandidatePool
  PROVE  \A x : Kb!FusedScore(d, s, x) \in Int
<1>1. ASSUME NEW r, IsRanking(r, S), Len(r) <= CandidatePool, NEW x
      PROVE  Kb!Contribution(r, x) \in Nat
  <2>1. CASE x \notin ToSet(r)
    BY <1>1, <2>1, ContributionIs
  <2>2. CASE x \in ToSet(r)
    <3>1. PICK k \in 1..Len(r) : r[k] = x
      BY <1>1, <2>2 DEF ToSet, IsRanking
    <3>2. Kb!Contribution(r, x) = Kb!Scale \div (Kb!RrfK + k)
      BY <1>1, <3>1, ContributionIs
    <3>3. PICK a, z : a = Kb!RrfK + k /\ z = Kb!Scale
      OBVIOUS
    <3>4. a \in Nat /\ a > 0 /\ z \in Nat
      BY <1>1, <3>3 DEF Kb!RrfK, Kb!Scale, IsRanking
    <3>5. z \div a \in Nat
      BY <3>4
    <3> QED
      BY <3>2, <3>3, <3>5
  <2> QED
    BY <2>1, <2>2
<1>2. ASSUME NEW x
      PROVE  Kb!FusedScore(d, s, x) \in Int
  <2>1. Kb!Contribution(d, x) \in Nat /\ Kb!Contribution(s, x) \in Nat
    BY <1>1
  <2> QED
    BY <2>1 DEF Kb!FusedScore
<1> QED
  BY <1>2

LEMMA MinOfTwo ==
  /\ \A a \in Nat, b \in Nat : Kb!Min({a, b}) \in {a, b} /\ Kb!Min({a, b}) <= a /\ Kb!Min({a, b}) <= b
  /\ \A a \in Nat : Kb!Min({a}) = a
<1>1. ASSUME NEW a \in Nat, NEW b \in Nat
      PROVE  Kb!Min({a, b}) \in {a, b} /\ Kb!Min({a, b}) <= a /\ Kb!Min({a, b}) <= b
  <2>1. \E x \in {a, b} : \A y \in {a, b} : x <= y
    OBVIOUS
  <2> QED
    BY <2>1 DEF Kb!Min
<1>2. ASSUME NEW a \in Nat
      PROVE  Kb!Min({a}) = a
  BY DEF Kb!Min
<1> QED
  BY <1>1, <1>2

\* Fusion keeps what was found, and what both rankings have comes first.
LEMMA FusionKeepsConsensus ==
  ASSUME NEW S, IsFiniteSet(S), NEW d, NEW s, IsRanking(d, S), IsRanking(s, S),
         Len(d) <= CandidatePool, Len(s) <= CandidatePool,
         NEW fused \in Kb!ReciprocalRankFusion(d, s, CandidatePool)
  PROVE  IsRanking(fused, Found(d, s)) /\ Kb!ConsensusFirst(d, s, fused)
<1> DEFINE found == Found(d, s)
           both == ToSet(d) \cap ToSet(s)
           rank(r, i) == {p \in DOMAIN r : r[p] = i}
           best(i) == Kb!Min(rank(d, i) \cup rank(s, i))
           score(i) == Kb!FusedScore(d, s, i)
<1>1. CandidatePool \in Nat
  BY PoolIs
<1>20. PICK q : FusedOrder(q, d, s) /\ fused = Kb!Truncated(q, CandidatePool)
  <2>1. IsFused(fused, d, s, CandidatePool)
    BY <1>1, FusionIs
  <2> QED
    BY <2>1 DEF IsFused
<1>2. /\ IsRanking(q, found) /\ Len(q) = Cardinality(found) /\ Cardinality(found) \in Nat
      /\ \A x \in found : \E i \in 1..Len(q) : q[i] = x
      /\ \A k \in 1..Len(q) - 1 : score(q[k]) >= score(q[k + 1])
      /\ fused = Kb!Truncated(q, CandidatePool)
  BY <1>1, <1>20, FusionIs DEF FusedOrder
<1>3. /\ IsRanking(fused, found)
      /\ Len(fused) = IF Len(q) <= CandidatePool THEN Len(q) ELSE CandidatePool
      /\ \A i \in 1..Len(fused) : fused[i] = q[i]
  BY <1>1, <1>2, TruncatedIs
<1>4. Len(fused) = Kb!Min({CandidatePool, Kb!Cardinality(found)})
  <2>1. PICK c : c = Cardinality(found) /\ c \in Nat /\ Len(q) = c
    BY <1>2
  <2>2. Kb!Min({CandidatePool, c}) \in {CandidatePool, c} /\ Kb!Min({CandidatePool, c}) <= CandidatePool
        /\ Kb!Min({CandidatePool, c}) <= c
    BY <1>1, <2>1, MinOfTwo
  <2>3. Kb!Cardinality(found) = c
    BY <2>1, SameCardinality
  <2> HIDE DEF found
  <2> QED
    BY <1>1, <1>3, <2>1, <2>2, <2>3
<1>5. /\ d \in Seq(S) /\ DOMAIN d = 1..Len(d) /\ Len(d) \in Nat /\ \A i, j \in 1..Len(d) : d[i] = d[j] => i = j
      /\ s \in Seq(S) /\ DOMAIN s = 1..Len(s) /\ Len(s) \in Nat /\ \A i, j \in 1..Len(s) : s[i] = s[j] => i = j
      /\ q \in Seq(found) /\ DOMAIN q = 1..Len(q) /\ Len(q) \in Nat /\ DOMAIN fused = 1..Len(fused)
  BY <1>2, <1>3 DEF IsRanking
<1>6. ASSUME NEW i \in both, NEW b \in 1..Len(fused), fused[b] \notin both, best(i) <= best(fused[b])
      PROVE  \E a \in 1..Len(fused) : fused[a] = i /\ a < b
  <2>1. PICK kd \in 1..Len(d) : d[kd] = i
    BY <1>5 DEF ToSet
  <2>2. PICK ks \in 1..Len(s) : s[ks] = i
    BY <1>5 DEF ToSet
  <2>3. rank(d, i) = {kd} /\ rank(s, i) = {ks}
    BY <1>5, <2>1, <2>2
  <2>4. best(i) = kd \/ best(i) = ks
    <3>1. rank(d, i) \cup rank(s, i) = {kd, ks}
      BY <2>3
    <3> QED
      BY <3>1, MinOfTwo
  <2>5. PICK x : x = fused[b]
    OBVIOUS
  <2>6. x \in found /\ x \notin both /\ q[b] = x /\ b \in 1..Len(q)
    BY <1>3, <1>5, <1>6, <2>5
  <2>7. PICK k \in Nat : /\ best(x) = k
                         /\ \/ k \in 1..Len(d) /\ d[k] = x /\ x \notin ToSet(s)
                            \/ k \in 1..Len(s) /\ s[k] = x /\ x \notin ToSet(d)
    <3>1. CASE x \in ToSet(d)
      <4>1. PICK k \in 1..Len(d) : d[k] = x
        BY <1>5, <3>1 DEF ToSet
      <4>2. x \notin ToSet(s)
        BY <2>6, <3>1
      <4>3. rank(d, x) = {k} /\ rank(s, x) = {}
        BY <1>5, <4>1, <4>2 DEF ToSet
      <4>4. rank(d, x) \cup rank(s, x) = {k}
        BY <4>3
      <4>5. best(x) = k
        BY <4>4, MinOfTwo
      <4>6. k \in Nat
        BY <1>5
      <4> HIDE DEF best
      <4> QED
        BY <4>1, <4>2, <4>5, <4>6, Zenon
    <3>2. CASE x \notin ToSet(d)
      <4>1. PICK k \in 1..Len(s) : s[k] = x
        BY <1>5, <2>6, <3>2 DEF ToSet, Found
      <4>2. rank(s, x) = {k} /\ rank(d, x) = {}
        BY <1>5, <4>1, <3>2 DEF ToSet
      <4>3. rank(d, x) \cup rank(s, x) = {k}
        BY <4>2
      <4>4. best(x) = k
        BY <4>3, MinOfTwo
      <4>5. k \in Nat
        BY <1>5
      <4> HIDE DEF best
      <4> QED
        BY <3>2, <4>1, <4>4, <4>5, Zenon
    <3> QED
      BY <3>1, <3>2
  <2>8. kd <= k \/ ks <= k
    BY <1>6, <2>4, <2>5, <2>7
  <2> HIDE DEF best, rank
  <2>9. score(i) \in Int /\ score(x) \in Int /\ score(i) > score(x)
    BY <2>1, <2>2, <2>7, <2>8, ConsensusScores
  <2>10. PICK a \in 1..Len(q) : q[a] = i
    BY <1>2 DEF Found
  <2>11. ~(b <= a)
    <3> SUFFICES ASSUME b <= a PROVE FALSE
      OBVIOUS
    <3> DEFINE f == [n \in 1..Len(q) |-> IF score(q[n]) \in Int THEN score(q[n]) ELSE 0]
    <3>1. \A n \in 1..Len(q) : score(q[n]) \in Int
      BY <1>2, <1>5, ScoresAreInt
    <3>2. f \in [1..Len(q) -> Int] /\ \A n \in 1..Len(q) : f[n] = score(q[n])
      BY <3>1
    <3>3. ASSUME NEW n \in 1..Len(q) - 1 PROVE f[n] >= f[n + 1]
      <4>1. n \in 1..Len(q) /\ n + 1 \in 1..Len(q)
        BY <1>5
      <4>2. f[n] = score(q[n]) /\ f[n + 1] = score(q[n + 1])
        BY <3>2, <4>1
      <4>3. score(q[n]) >= score(q[n + 1])
        BY <1>2
      <4> QED
        BY <4>2, <4>3
    <3> HIDE DEF f, score
    <3>4. f[b] >= f[a]
      BY <1>5, <2>6, <3>2, <3>3, Descends
    <3> QED
      BY <2>6, <2>9, <2>10, <3>2, <3>4
  <2>12. a \in 1..Len(fused) /\ fused[a] = i /\ a < b
    BY <1>3, <1>5, <2>10, <2>11
  <2> QED
    BY <2>12
<1>7. Kb!IsInjective(fused) /\ Kb!ToSet(fused) \subseteq found
  BY <1>3 DEF Kb!IsInjective, Kb!ToSet, IsRanking
<1>8. Kb!ToSet(d) = ToSet(d) /\ Kb!ToSet(s) = ToSet(s)
  BY DEF Kb!ToSet, ToSet
<1> HIDE DEF score
<1> QED
  BY <1>3, <1>4, <1>5, <1>6, <1>7, <1>8, Zenon DEF Kb!ConsensusFirst, Found

\* Whatever the scores, each position is ranked once.
LEMMA ByScoreIs ==
  ASSUME NEW n \in Nat, NEW score, DOMAIN score = 1..n, NEW p \in Kb!ByScore(score)
  PROVE  IsRanking(p, 1..n) /\ Len(p) = n
<1>1. p \in SetToSeqs(1..n)
  BY SameSeqs DEF Kb!ByScore
<1>2. IsFiniteSet(1..n) /\ Cardinality(1..n) = n
  BY FS_Interval
<1> QED
  BY <1>1, <1>2, SeqsAre DEF IsRanking

Rerankers == {"none", "mock", "http"}

LEMMA OrderIs ==
  ASSUME NEW n \in Nat, NEW fused, DOMAIN fused = 1..n, NEW base, DOMAIN base = 1..n,
         NEW reranker, reranker.kind \in Rerankers, NEW p \in Kb!Order(reranker, fused, base)
  PROVE  IsRanking(p, 1..n) /\ Len(p) = n
<1> DEFINE same == [i \in 1..n |-> i]
<1>1. IsRanking(same, 1..n) /\ Len(same) = n
  BY DEF IsRanking
<1> HIDE DEF same
<1>2. CASE reranker.kind = "none"
  <2>1. p = same
    BY <1>2 DEF Kb!Order, same
  <2> QED
    BY <1>1, <2>1
<1>3. CASE reranker.kind = "mock"
  <2>1. p \in Kb!MockRerank(reranker.store, reranker.query, reranker.identifiers, fused, base)
    BY <1>3 DEF Kb!Order
  <2>2. PICK score : DOMAIN score = 1..n /\ p \in Kb!ByScore(score)
    BY <2>1 DEF Kb!MockRerank
  <2> QED
    BY <2>2, ByScoreIs
<1>4. CASE reranker.kind = "http"
  <2>1. p \in Kb!HttpRerank(base, reranker.answer)
    BY <1>4 DEF Kb!Order
  <2>2. CASE reranker.answer = "failed"
    <3>1. p = same
      BY <2>1, <2>2 DEF Kb!HttpRerank, same
    <3> QED
      BY <1>1, <3>1
  <2>3. CASE reranker.answer # "failed"
    <3>1. p \in Kb!ByScore(Kb!Scored(base, reranker.answer))
      BY <2>1, <2>3 DEF Kb!HttpRerank
    <3>2. DOMAIN Kb!Scored(base, reranker.answer) = 1..n
      BY DEF Kb!Scored
    <3> QED
      BY <3>1, <3>2, ByScoreIs
  <2> QED
    BY <2>2, <2>3
<1> QED
  BY <1>2, <1>3, <1>4 DEF Rerankers

\* A ranking whose positions are ranked again is a ranking of the same set.
LEMMA Reordered ==
  ASSUME NEW S, NEW r, IsRanking(r, S), NEW p, IsRanking(p, 1..Len(r)), Len(p) = Len(r)
  PROVE  /\ IsRanking([k \in DOMAIN p |-> r[p[k]]], S)
         /\ Len([k \in DOMAIN p |-> r[p[k]]]) = Len(r)
<1> DEFINE n == Len(r)
           t == [k \in DOMAIN p |-> r[p[k]]]
<1>1. /\ n \in Nat /\ r \in Seq(S) /\ DOMAIN p = 1..n /\ p \in Seq(1..n)
      /\ \A i, j \in 1..n : r[i] = r[j] => i = j
      /\ \A i, j \in 1..n : p[i] = p[j] => i = j
  BY DEF IsRanking
<1>2. \A k \in 1..n : p[k] \in 1..n /\ r[p[k]] \in S
  BY <1>1
<1>3. t \in Seq(S) /\ Len(t) = n /\ DOMAIN t = 1..n
  BY <1>1, <1>2
<1>4. \A i, j \in 1..n : t[i] = t[j] => i = j
  BY <1>1, <1>2
<1> HIDE DEF t
<1> QED
  BY <1>1, <1>3, <1>4 DEF IsRanking, t

\* What a search answers: nothing is lost between the rankings and the hits.
LEMMA SearchedIs ==
  ASSUME NEW S, IsFiniteSet(S), NEW d, NEW s, IsRanking(d, S), IsRanking(s, S),
         Len(d) <= CandidatePool, Len(s) <= CandidatePool,
         NEW topK \in Nat, NEW reranker, reranker.kind \in Rerankers,
         NEW a \in Kb!Searched(d, s, topK, reranker)
  PROVE  /\ Kb!ConsensusFirst(a.dense, a.sparse, a.fused)
         /\ Kb!RerankingKeepsCandidates(a, topK)
         /\ ToSet(a.hits) \subseteq S
<1> DEFINE base(fused) == [k \in DOMAIN fused |-> Kb!FusedScore(d, s, fused[k])]
           answer(fused, reranked) ==
             [dense |-> d, sparse |-> s, fused |-> fused, hits |-> Kb!Truncated(reranked, topK),
              overlap |-> Kb!RankOverlap(d, s), truncated |-> Len(reranked) > topK]
           answers(fused) == {answer(fused, [k \in DOMAIN p |-> fused[p[k]]])
                                : p \in Kb!Order(reranker, fused, base(fused))}
<1>1. PICK fused \in Kb!ReciprocalRankFusion(d, s, CandidatePool) : a \in answers(fused)
  <2>1. Kb!Searched(d, s, topK, reranker) =
          UNION {answers(fused) : fused \in Kb!ReciprocalRankFusion(d, s, CandidatePool)}
    BY Zenon DEF Kb!Searched
  <2> HIDE DEF answers
  <2> QED
    BY <2>1
<1>2. PICK p \in Kb!Order(reranker, fused, base(fused)) :
        /\ a.dense = d /\ a.sparse = s /\ a.fused = fused
        /\ a.hits = Kb!Truncated([k \in DOMAIN p |-> fused[p[k]]], topK)
  <2>1. PICK p \in Kb!Order(reranker, fused, base(fused)) :
          a = answer(fused, [k \in DOMAIN p |-> fused[p[k]]])
    BY <1>1
  <2> QED
    BY <2>1
<1>3. IsRanking(fused, Found(d, s)) /\ Kb!ConsensusFirst(d, s, fused)
  BY FusionKeepsConsensus
<1>4. Len(fused) \in Nat /\ DOMAIN fused = 1..Len(fused) /\ DOMAIN base(fused) = 1..Len(fused)
  BY <1>3 DEF IsRanking
<1>5. IsRanking(p, 1..Len(fused)) /\ Len(p) = Len(fused)
  <2>1. PICK b : b = base(fused)
    OBVIOUS
  <2>2. DOMAIN b = 1..Len(fused) /\ p \in Kb!Order(reranker, fused, b)
    BY <1>4, <2>1
  <2> QED
    BY <1>4, <2>2, OrderIs
<1>6. PICK t : t = [k \in DOMAIN p |-> fused[p[k]]]
  OBVIOUS
<1>7. IsRanking(t, Found(d, s)) /\ Len(t) = Len(fused)
  BY <1>3, <1>5, <1>6, Reordered
<1>8. /\ IsRanking(a.hits, Found(d, s))
      /\ Len(a.hits) = IF Len(t) <= topK THEN Len(t) ELSE topK
      /\ \A i \in 1..Len(a.hits) : a.hits[i] = t[i]
  <2>1. a.hits = Kb!Truncated(t, topK)
    BY <1>2, <1>6
  <2>2. PICK hits, S0 : hits = Kb!Truncated(t, topK) /\ S0 = Found(d, s)
    OBVIOUS
  <2>3. /\ IsRanking(hits, S0)
        /\ Len(hits) = IF Len(t) <= topK THEN Len(t) ELSE topK
        /\ \A i \in 1..Len(hits) : hits[i] = t[i]
    BY <1>7, <2>2, TruncatedIs
  <2> QED
    BY <2>1, <2>2, <2>3
<1>9. Len(a.hits) = Kb!Min({topK, Len(fused)})
  BY <1>4, <1>7, <1>8, MinOfTwo
<1>10. Kb!IsInjective(a.hits)
  BY <1>8 DEF IsRanking, Kb!IsInjective
<1>11. Kb!ToSet(a.hits) \subseteq Kb!ToSet(fused)
  <2> SUFFICES ASSUME NEW i \in DOMAIN a.hits PROVE a.hits[i] \in Kb!ToSet(fused)
    BY DEF Kb!ToSet
  <2>1. i \in 1..Len(t) /\ a.hits[i] = t[i]
    BY <1>4, <1>7, <1>8 DEF IsRanking
  <2>2. i \in DOMAIN p /\ p[i] \in 1..Len(fused)
    BY <1>5, <1>7, <2>1 DEF IsRanking
  <2>3. t[i] = fused[p[i]]
    BY <1>6, <2>2
  <2> QED
    BY <1>4, <2>1, <2>2, <2>3 DEF Kb!ToSet
<1>12. ToSet(a.hits) \subseteq S
  <2>1. Found(d, s) \subseteq S
    BY DEF Found, ToSet, IsRanking
  <2>2. ToSet(a.hits) \subseteq Found(d, s)
    BY <1>8 DEF IsRanking, ToSet
  <2> QED
    BY <2>1, <2>2
<1>13. Kb!RerankingKeepsCandidates(a, topK)
  BY <1>2, <1>9, <1>10, <1>11 DEF Kb!RerankingKeepsCandidates
<1> QED
  BY <1>2, <1>3, <1>12, <1>13

LEMMA SearchResultsAre ==
  ASSUME NEW terms, NEW domains, NEW dim, NEW topK \in Nat, NEW kind \in Rerankers,
         NEW a \in SearchResults(terms, domains, dim, topK, kind)
  PROVE  /\ Kb!ConsensusFirst(a.dense, a.sparse, a.fused)
         /\ Kb!RerankingKeepsCandidates(a, topK)
         /\ domains # {} => \A i \in ToSet(a.hits) : Chunks[i].domain \in domains
<1> DEFINE q == Kb!SearchQuery(terms, domains, dim, CandidatePool)
           S == {i \in DOMAIN Chunks : Kb!Wants(q, Chunks[i])}
<1>1. PICK h, reranker : /\ h \in Kb!InMemoryHybrid(Chunks, q) /\ reranker.kind \in Rerankers
                         /\ a \in Kb!Searched(h.value.dense, h.value.sparse, topK, reranker)
  BY DEF SearchResults, Rerankers
<1>2. q.topK = CandidatePool /\ q.domains = domains
  BY DEF Kb!SearchQuery
<1>3. IsFiniteSet(S) /\ CandidatePool \in Nat
  <2>1. S \subseteq DOMAIN Chunks /\ IsFiniteSet(DOMAIN Chunks)
    BY QueryAssumption
  <2> HIDE DEF S
  <2> QED
    BY <2>1, PoolIs, FS_Subset
<1>4. PICK d, s : /\ h.value.dense = d /\ h.value.sparse = s
                  /\ d \in Kb!DenseSearch(Chunks, q) \cup {<<>>} /\ s \in Kb!Bm25Search(Chunks, q)
  BY <1>1 DEF Kb!InMemoryHybrid, Kb!Ok
<1> HIDE DEF q, S
<1>5. ASSUME NEW T, T \subseteq S, NEW r \in Kb!Rankings(T, CandidatePool)
      PROVE  IsRanking(r, S) /\ Len(r) <= CandidatePool
  <2>1. IsFiniteSet(T)
    BY <1>3, <1>5, FS_Subset
  <2>2. IsRanking(r, T) /\ Len(r) <= CandidatePool
    BY <1>3, <2>1, RankingsAre
  <2>3. r \in Seq(S)
    BY <1>5, <2>2 DEF IsRanking
  <2> QED
    BY <2>2, <2>3 DEF IsRanking
<1>6. IsRanking(d, S) /\ Len(d) <= CandidatePool
  <2>1. CASE d \in Kb!DenseSearch(Chunks, q)
    <3>1. PICK T : T \subseteq S /\ d \in Kb!Rankings(T, CandidatePool)
      BY <1>2, <2>1 DEF Kb!DenseSearch, S
    <3> QED
      BY <1>5, <3>1
  <2>2. CASE d = <<>>
    BY <1>3, <2>2 DEF IsRanking
  <2> QED
    BY <1>4, <2>1, <2>2
<1>7. IsRanking(s, S) /\ Len(s) <= CandidatePool
  <2>1. PICK T : T \subseteq S /\ s \in Kb!Rankings(T, CandidatePool)
    BY <1>2, <1>4 DEF Kb!Bm25Search, S
  <2> QED
    BY <1>5, <2>1
<1>8. /\ Kb!ConsensusFirst(a.dense, a.sparse, a.fused)
      /\ Kb!RerankingKeepsCandidates(a, topK)
      /\ ToSet(a.hits) \subseteq S
  BY <1>1, <1>3, <1>4, <1>6, <1>7, SearchedIs
<1>9. \A i \in S : domains # {} => Chunks[i].domain \in domains
  BY <1>2 DEF S, Kb!Wants
<1> QED
  BY <1>8, <1>9

-----------------------------------------------------------------------------
(* ERP and OIC.                                                             *)

LEMMA ListedAre ==
  Erp!Listed = {"serverInformation", "itemsV2", "journalEntries", "journalImport", "purchaseOrders", "salesOrders",
                "receipts", "suppliers", "sandbox", "runReport", "describe", "commit", "rollback"}
  BY DEF Erp!Listed, Erp!Catalogue

\* What the catalogue lists as reading is sent as a GET.
LEMMA ReadingIsGet ==
  ASSUME NEW f \in Erp!Listed, Erp!Catalogue[f].readOnly
  PROVE  Erp!Dispatch(f) = "GET"
<1>1. f \in {"serverInformation", "itemsV2", "runReport", "describe"}
  BY ListedAre DEF Erp!Catalogue, Erp!Operation
<1>2. Erp!Catalogue[f].verb \in {"serverInformation", "get", "runReport", "describe"}
  BY <1>1 DEF Erp!Catalogue, Erp!Operation
<1> QED
  BY <1>2 DEF Erp!Dispatch, Erp!Named

LEMMA FusionCallReads ==
  ASSUME NEW f, NEW http, Erp!FusionCall(f, TRUE, http).ok
  PROVE  /\ Erp!FusionCall(f, TRUE, http).value.sent = "GET"
         /\ Erp!OperationMetadata(f).ok /\ Erp!Catalogue[f].readOnly
<1>1. Erp!FusionGate(f, TRUE) = "pass" /\ http.transport = "answered"
  BY DEF Erp!FusionCall, Erp!Err
<1>2. f \in Erp!Listed /\ Erp!Catalogue[f].readOnly
  BY <1>1 DEF Erp!FusionGate
<1>3. Erp!FusionCall(f, TRUE, http).value.sent = Erp!Dispatch(f)
  BY <1>1 DEF Erp!FusionCall, Erp!Ok
<1>4. Erp!OperationMetadata(f).ok
  BY <1>2 DEF Erp!OperationMetadata, Erp!Ok
<1> QED
  BY <1>2, <1>3, <1>4, ReadingIsGet

LEMMA MockCallReads ==
  ASSUME NEW f, NEW params, Erp!MockCall(f, params, TRUE).ok
  PROVE  Erp!Catalogue[f].readOnly
  BY DEF Erp!MockCall, Erp!Err

LEMMA ActivationIsAccepted ==
  ASSUME NEW name, NEW readOnly \in BOOLEAN, NEW http
  PROVE  /\ Oic!Activate(name, readOnly).ok => ~readOnly
         /\ Oic!HttpActivate(name, readOnly, http).ok =>
              ~readOnly /\ (Oic!HttpActivate(name, readOnly, http).value.activated => http.status \in 200..299)
<1>1. Oic!Activate(name, readOnly).ok => ~readOnly
  BY DEF Oic!Activate, Oic!Err
<1>2. ASSUME Oic!HttpActivate(name, readOnly, http).ok
      PROVE  ~readOnly /\ (Oic!HttpActivate(name, readOnly, http).value.activated => http.status \in 200..299)
  BY <1>2 DEF Oic!HttpActivate, Oic!Err, Oic!Ok
<1> QED
  BY <1>1, <1>2

Names == {"GT_GL_JOURNAL_IMPORT", "GT_PO_RECEIPT_SYNC", "GT_INVOICE_HOLD_RULE", "GT_ITEM_DEFAULTING",
          "GT_FUSION_ERP_REST", "GT_COMPANY_XREF", "JournalImportLauncher", "GT_GL_JOURNAL_EXTRACT"}

LEMMA ObjectsAre == DOMAIN Oic!Objects = Names
  BY DEF Oic!Objects, Names

LEMMA PairsAreFinite ==
  ASSUME NEW a, NEW b
  PROVE  IsFiniteSet({a, b})
<1>1. IsFiniteSet({a} \cup {b})
  BY FS_Singleton, FS_Union
<1>2. {a} \cup {b} = {a, b}
  OBVIOUS
<1> QED
  BY <1>1, <1>2, Zenon

LEMMA NamesAreFinite == IsFiniteSet(Names)
<1> DEFINE A == {"GT_GL_JOURNAL_IMPORT", "GT_PO_RECEIPT_SYNC"}
           B == {"GT_INVOICE_HOLD_RULE", "GT_ITEM_DEFAULTING"}
           C == {"GT_FUSION_ERP_REST", "GT_COMPANY_XREF"}
           D == {"JournalImportLauncher", "GT_GL_JOURNAL_EXTRACT"}
<1>1. IsFiniteSet(A) /\ IsFiniteSet(B) /\ IsFiniteSet(C) /\ IsFiniteSet(D)
  BY PairsAreFinite
<1>2. Names = (A \cup B) \cup (C \cup D)
  BY DEF Names
<1> HIDE DEF A, B, C, D
<1>3. IsFiniteSet(A \cup B) /\ IsFiniteSet(C \cup D)
  BY <1>1, FS_Union
<1> QED
  BY <1>2, <1>3, FS_Union

LEMMA SameOicSeqs == \A S : Oic!SetToSeqs(S) = SetToSeqs(S)
<1>1. \A S : Oic!Cardinality(S) = Cardinality(S)
  BY Zenon DEF Oic!Cardinality, Cardinality
<1> QED
  BY <1>1, Zenon DEF Oic!SetToSeqs, SetToSeqs

\* A search finds objects.
LEMMA FoundAreObjects ==
  ASSUME NEW terms, NEW kind, NEW max \in Nat, NEW r \in Oic!Search(terms, kind, max)
  PROVE  ToSet(r.value) \subseteq DOMAIN Oic!Objects
<1> DEFINE hits == {n \in Oic!Searched : Oic!SearchScore(n, terms) > 0 /\ kind \in {"any", Oic!Objects[n].kind}}
           cap == IF max < 1 THEN 1 ELSE max
           answer(s) == Oic!Ok(IF Len(s) <= cap THEN s ELSE SubSeq(s, 1, cap))
<1>1. cap \in Nat
  OBVIOUS
<1>2. PICK s \in Oic!SetToSeqs(hits) : r = answer(s)
  BY DEF Oic!Search
<1>3. hits \subseteq Names /\ IsFiniteSet(hits)
  <2>1. hits \subseteq Names
    BY ObjectsAre DEF Oic!Searched
  <2> QED
    BY <2>1, NamesAreFinite, FS_Subset
<1>4. s \in Seq(hits)
  BY <1>2, <1>3, SameOicSeqs, SeqsAre
<1>5. r.value = IF Len(s) <= cap THEN s ELSE SubSeq(s, 1, cap)
  BY <1>2 DEF Oic!Ok
<1> HIDE DEF hits, cap
<1>6. ToSet(r.value) \subseteq hits
  BY <1>1, <1>4, <1>5 DEF ToSet
<1> QED
  BY <1>3, <1>6, ObjectsAre

\* What a project lists and what uses an object are objects too.
LEMMA ListsAreObjects ==
  /\ \A p \in DOMAIN Oic!Projects : Oic!Projects[p] \subseteq DOMAIN Oic!Objects
  /\ \A n \in DOMAIN Oic!UsedBy : Oic!UsedBy[n] \subseteq DOMAIN Oic!Objects
<1>1. \A p \in DOMAIN Oic!Projects : Oic!Projects[p] \subseteq Names
  BY DEF Oic!Projects, Names
<1>2. \A n \in DOMAIN Oic!UsedBy : Oic!UsedBy[n] \subseteq Names
  BY DEF Oic!UsedBy, Names
<1> QED
  BY <1>1, <1>2, ObjectsAre

\* The letters in which a used object is given make no difference.
LEMMA AnyLettersAreUsed ==
  ASSUME NEW given \in Givens(DOMAIN Oic!UsedBy), NEW kind
  PROVE  Oic!WhereUsed(given, kind) = Oic!WhereUsed(Oic!Given(given.name, "own"), kind)
<1>1. given.name \in {"GT_FUSION_ERP_REST", "GT_COMPANY_XREF"}
  BY DEF Givens, Oic!UsedBy, Oic!Given
<1>2. Oic!Folded(given) = Oic!Folded(Oic!Given(given.name, "own"))
  BY <1>1 DEF Oic!Folded, Oic!IsUpper, Oic!Given
<1> QED
  BY <1>2 DEF Oic!WhereUsed

\* Every object is found by its name, in whatever letters.
LEMMA ObjectsAreFetchable ==
  ASSUME NEW n \in DOMAIN Oic!Objects, NEW c \in Oic!Cases
  PROVE  Fetchable(n, c)
<1>1. CASE n = "JournalImportLauncher"
  <2>1. Oic!Objects[n].kind = "EssJob" /\ Oic!Objects[n].group = "GL"
    BY <1>1 DEF Oic!Objects, Oic!Object
  <2>2. Oic!Exact(Oic!Given(n, "own")) = n /\ Oic!Folded(Oic!Given("GL", c)) = "GL"
    BY DEF Oic!Exact, Oic!Given, Oic!Folded, Oic!IsUpper
  <2> QED
    BY <2>1, <2>2 DEF Fetchable, Oic!GetEssJob, Oic!Ok
<1>2. CASE n # "JournalImportLauncher"
  <2>1. Oic!Objects[n].kind # "EssJob"
    BY <1>2, ObjectsAre DEF Names, Oic!Objects, Oic!Object
  <2>2. Oic!Folded(Oic!Given(n, c)) = n
    BY <1>2 DEF Oic!Given, Oic!Folded, Oic!IsUpper
  <2> QED
    BY <2>1, <2>2 DEF Fetchable, Oic!GetObject, Oic!Ok
<1> QED
  BY <1>1, <1>2

-----------------------------------------------------------------------------
(* The tree of a document.                                                  *)

\* A set of numbers below a bound has a greatest one.
LEMMA GreatestIs ==
  ASSUME NEW n \in Nat, NEW S, S \subseteq 0..n, S # {}
  PROVE  Max(S) \in S /\ \A k \in S : k <= Max(S)
<1> DEFINE U == {u \in 0..n : \A k \in S : k <= u}
<1>1. n \in U
  OBVIOUS
<1>2. PICK u \in U : IsFirst(u, U)
  <2>1. U \subseteq Nat /\ U # {}
    BY <1>1
  <2> HIDE DEF U
  <2> QED
    BY <2>1, FirstExists
<1>3. u \in S
  <2> SUFFICES ASSUME u \notin S PROVE FALSE
    OBVIOUS
  <2>1. \A k \in S : k \in Nat /\ k < u
    BY <1>2
  <2>4. PICK k \in S : TRUE
    OBVIOUS
  <2>2. u \in Nat /\ u # 0 /\ u <= n
    <3>1. k \in Nat /\ k < u /\ u \in 0..n
      BY <1>2, <2>1
    <3> QED
      BY <3>1
  <2>3. u - 1 \in U
    BY <2>1, <2>2
  <2> QED
    BY <1>2, <2>2, <2>3 DEF IsFirst
<1>4. \A k \in S : k <= u /\ k \in Nat
  BY <1>2
<1>5. \E x \in S : \A y \in S : x >= y
  BY <1>3, <1>4
<1>6. Max(S) \in S /\ \A y \in S : Max(S) >= y
  BY <1>5 DEF Max
<1> QED
  BY <1>4, <1>6

\* Every rank up to the size of a set of numbers is the rank of one of them.
LEMMA RanksAreAll ==
  ASSUME NEW n \in Nat, NEW K, K \subseteq 1..n
  PROVE  /\ Cardinality(K) \in Nat
         /\ \A r \in 1..Cardinality(K) : \E i \in K : Cardinality({j \in K : j <= i}) = r
<1> DEFINE UpTo(i) == {j \in K : j <= i}
           rank == [i \in K |-> Cardinality(UpTo(i))]
<1>1. IsFiniteSet(K) /\ Cardinality(K) \in Nat
  <2>1. IsFiniteSet(1..n)
    BY FS_Interval
  <2> QED
    BY <2>1, FS_Subset, FS_CardinalityType
<1>2. ASSUME NEW i \in K
      PROVE  IsFiniteSet(UpTo(i)) /\ Cardinality(UpTo(i)) \in 1..Cardinality(K)
  <2>1. UpTo(i) \subseteq K
    OBVIOUS
  <2>2. IsFiniteSet(UpTo(i)) /\ Cardinality(UpTo(i)) <= Cardinality(K)
    BY <1>1, <2>1, FS_Subset
  <2>3. i \in UpTo(i)
    OBVIOUS
  <2>4. Cardinality(UpTo(i)) \in Nat /\ Cardinality(UpTo(i)) # 0
    BY <2>2, <2>3, FS_CardinalityType, FS_EmptySet
  <2> HIDE DEF UpTo
  <2> QED
    BY <1>1, <2>2, <2>4
<1>3. ASSUME NEW i \in K, NEW j \in K, i < j PROVE rank[i] < rank[j]
  <2>1. i \in Nat /\ j \in Nat /\ K \subseteq Nat
    OBVIOUS
  <2>2. j \in UpTo(j) /\ j \notin UpTo(i)
    BY <1>3, <2>1
  <2>3. ASSUME NEW k \in UpTo(i) PROVE k \in UpTo(j)
    <3>1. k \in Nat /\ k <= i
      BY <2>1
    <3> QED
      BY <1>3, <2>1, <3>1
  <2>4. UpTo(i) \subseteq UpTo(j) /\ UpTo(i) # UpTo(j)
    BY <2>2, <2>3
  <2>5. Cardinality(UpTo(i)) < Cardinality(UpTo(j))
    BY <1>2, <2>4, FS_Subset
  <2> QED
    BY <2>5
<1>4. rank \in Injection(K, 1..Cardinality(K))
  <2>1. rank \in [K -> 1..Cardinality(K)]
    BY <1>2
  <2>2. ASSUME NEW i \in K, NEW j \in K, rank[i] = rank[j] PROVE i = j
    <3>1. i \in Nat /\ j \in Nat /\ rank[i] \in Nat /\ rank[j] \in Nat
      BY <1>1, <2>1
    <3> HIDE DEF rank
    <3> QED
      BY <1>3, <2>2, <3>1
  <2> HIDE DEF rank
  <2> QED
    BY <2>1, <2>2 DEF Injection, IsInjective
<1>5. rank \in Surjection(K, 1..Cardinality(K))
  <2>1. IsFiniteSet(1..Cardinality(K)) /\ Cardinality(1..Cardinality(K)) = Cardinality(K)
    BY <1>1, FS_Interval
  <2> HIDE DEF rank
  <2> QED
    BY <1>1, <1>4, <2>1, FS_Injection
<1>6. \A r \in 1..Cardinality(K) : \E i \in K : rank[i] = r
  <2> HIDE DEF rank
  <2> QED
    BY <1>5 DEF Surjection
<1> QED
  BY <1>1, <1>6

\* The members of a set of numbers in order.
Rises(at, n) ==
  /\ Len(at) \in Nat /\ DOMAIN at = 1..Len(at)
  /\ \A i \in 1..Len(at) : at[i] \in 1..n
  /\ \A i, j \in 1..Len(at) : i < j => at[i] < at[j]

LEMMA OrderedRises ==
  ASSUME NEW n \in Nat, NEW K, K \subseteq 1..n
  PROVE  Rises(Ordered(K), n)
<1> DEFINE UpTo(i) == {j \in K : j <= i}
           C == Cardinality(K)
           nth(r) == CHOOSE i \in K : Cardinality(UpTo(i)) = r
           at == Ordered(K)
<1>1. C \in Nat /\ \A r \in 1..C : \E i \in K : Cardinality(UpTo(i)) = r
  BY RanksAreAll
<1>2. \A r \in 1..C : nth(r) \in K /\ Cardinality(UpTo(nth(r))) = r
  BY <1>1
<1>3. at = [r \in 1..C |-> nth(r)]
  BY DEF Ordered
<1> HIDE DEF nth, at
<1>4. ASSUME NEW i \in 1..C, NEW j \in 1..C, i < j PROVE nth(i) < nth(j)
  <2> DEFINE a == nth(i)
             b == nth(j)
  <2>1. a \in K /\ b \in K /\ Cardinality(UpTo(a)) = i /\ Cardinality(UpTo(b)) = j
    BY <1>2
  <2>2. a \in Nat /\ b \in Nat /\ K \subseteq Nat
    <3> HIDE DEF a, b
    <3>1. K \subseteq Nat
      OBVIOUS
    <3> QED
      BY <2>1, <3>1
  <2>3. ~(b <= a)
    <3> SUFFICES ASSUME b <= a PROVE FALSE
      OBVIOUS
    <3>1. ASSUME NEW k \in UpTo(b) PROVE k \in UpTo(a)
      <4> HIDE DEF a, b
      <4>1. k \in Nat /\ k <= b /\ k \in K
        BY <2>2
      <4> QED
        BY <2>2, <4>1
    <3>2. IsFiniteSet(UpTo(a))
      <4>1. UpTo(a) \subseteq 1..n
        OBVIOUS
      <4>2. IsFiniteSet(1..n)
        BY FS_Interval
      <4> QED
        BY <4>1, <4>2, FS_Subset
    <3>3. Cardinality(UpTo(b)) <= Cardinality(UpTo(a))
      BY <3>1, <3>2, FS_Subset
    <3> QED
      BY <1>1, <1>4, <2>1, <3>3
  <2> HIDE DEF a, b
  <2> QED
    BY <2>2, <2>3 DEF a, b
<1>5. Len(at) = C /\ DOMAIN at = 1..C
  BY <1>1, <1>3
<1>6. \A i \in 1..C : at[i] \in 1..n
  BY <1>2, <1>3
<1>7. \A i, j \in 1..C : i < j => at[i] < at[j]
  BY <1>3, <1>4
<1> HIDE DEF C
<1> QED
  BY <1>1, <1>5, <1>6, <1>7 DEF Rises, at

\* Where the headings are, and what is prepared of them.
IsPrepared(new, n) ==
  /\ Len(new) \in Nat /\ DOMAIN new = 1..Len(new)
  /\ \A j \in 1..Len(new) : new[j].depth \in Nat /\ new[j].start \in 1..n /\ new[j].end \in 1..(n + 1)
  /\ \A i, j \in 1..Len(new) : i < j => new[i].start < new[j].start
  /\ \A j \in 1..Len(new) : new[j].end = IF j = Len(new) THEN n + 1 ELSE new[j + 1].start

LEMMA PreparedIs ==
  ASSUME NEW body \in Seq(Lines)
  PROVE  IsPrepared(Prepared(body), Len(body)) /\ Len(Prepared(body)) = Len(DetectHeadings(body))
<1> DEFINE at == DetectHeadings(body)
           n == Len(body)
           new == Prepared(body)
           end(k) == IF k = Len(at) THEN Len(body) + 1 ELSE at[k + 1]
<1>1. n \in Nat /\ DOMAIN body = 1..n /\ \A i \in 1..n : body[i] \in Lines
  OBVIOUS
<1>2. Rises(at, n)
  <2> DEFINE atx == {i \in DOMAIN body : IsAtx(body[i])}
             marked == {i \in DOMAIN body : IsMarker(body[i])}
             K == IF atx # {} THEN atx ELSE marked
  <2>1. K \subseteq 1..n
    BY <1>1
  <2>2. at = Ordered(K)
    BY DEF DetectHeadings
  <2> HIDE DEF K, n
  <2> QED
    BY <1>1, <2>1, <2>2, OrderedRises
<1>3. new = [k \in DOMAIN at |-> [depth |-> DepthOf(body[at[k]]), start |-> at[k], end |-> end(k)]]
  BY DEF Prepared
<1> HIDE DEF at, new
<1>4. DOMAIN new = 1..Len(at) /\ Len(new) = Len(at) /\ Len(at) \in Nat
  BY <1>2, <1>3 DEF Rises
<1>10. ASSUME NEW j \in 1..Len(at), j # Len(at) PROVE j + 1 \in 1..Len(at)
  <2>1. PICK c : c = Len(at)
    OBVIOUS
  <2>2. c \in Nat /\ j \in 1..c /\ j # c
    BY <1>4, <1>10, <2>1
  <2>3. j + 1 \in 1..c
    BY <2>2
  <2> QED
    BY <2>1, <2>3
<1>5. ASSUME NEW j \in 1..Len(at)
      PROVE  /\ new[j].depth = DepthOf(body[at[j]]) /\ new[j].start = at[j] /\ new[j].end = end(j)
             /\ at[j] \in 1..n /\ new[j].depth \in Nat /\ new[j].end \in 1..(n + 1)
  <2>1. at[j] \in 1..n
    BY <1>2 DEF Rises
  <2>2. DepthOf(body[at[j]]) \in Nat
    BY <1>1, <2>1 DEF DepthOf, Lines
  <2>3. end(j) \in 1..(n + 1)
    <3>1. CASE j = Len(at)
      BY <1>1, <3>1
    <3>2. CASE j # Len(at)
      <4>1. j + 1 \in 1..Len(at)
        BY <1>10, <3>2
      <4>2. at[j + 1] \in 1..n
        BY <1>2, <4>1 DEF Rises
      <4> QED
        BY <1>1, <3>2, <4>2
    <3> QED
      BY <3>1, <3>2
  <2> QED
    BY <1>2, <1>3, <2>1, <2>2, <2>3 DEF Rises
<1>6. ASSUME NEW j \in 1..Len(new) PROVE new[j].end = IF j = Len(new) THEN n + 1 ELSE new[j + 1].start
  <2>1. CASE j = Len(at)
    BY <1>4, <1>5, <2>1
  <2>2. CASE j # Len(at)
    <3>1. j + 1 \in 1..Len(at)
      BY <1>4, <1>10, <2>2
    <3> QED
      BY <1>4, <1>5, <2>2, <3>1
  <2> QED
    BY <2>1, <2>2
<1>7. \A i, j \in 1..Len(new) : i < j => new[i].start < new[j].start
  <2>1. \A i, j \in 1..Len(at) : i < j => at[i] < at[j]
    BY <1>2 DEF Rises
  <2>2. \A j \in 1..Len(at) : new[j].start = at[j]
    BY <1>5
  <2>3. PICK c : c = Len(at)
    OBVIOUS
  <2>4. \A i, j \in 1..c : i < j => new[i].start < new[j].start
    BY <2>1, <2>2, <2>3
  <2> QED
    BY <1>4, <2>3, <2>4
<1> HIDE DEF n
<1>8. \A j \in 1..Len(new) : new[j].depth \in Nat /\ new[j].start \in 1..n /\ new[j].end \in 1..(n + 1)
  BY <1>4, <1>5
<1>9. IsPrepared(new, n)
  BY <1>4, <1>6, <1>7, <1>8 DEF IsPrepared
<1> QED
  BY <1>4, <1>9 DEF new, n, at

(* The nearest heading before the j-th of a smaller depth, or 0.            *)
Above(new, j) == Max({0} \cup {p \in 1..(j - 1) : new[p].depth < new[j].depth})

LEMMA UpToIs ==
  ASSUME NEW n, NEW new, IsPrepared(new, n), NEW j \in 1..Len(new)
  PROVE  /\ Len(new) \in Nat /\ j \in Nat /\ j > 0 /\ j - 1 \in Nat
         /\ \A p \in 1..j : p \in 1..Len(new) /\ new[p].depth \in Nat
<1>1. PICK m : m = Len(new)
  OBVIOUS
<1>2. m \in Nat /\ \A p \in 1..m : new[p].depth \in Nat
  BY <1>1 DEF IsPrepared
<1>3. j \in 1..m
  BY <1>1
<1>4. \A p \in 1..j : p \in 1..m
  BY <1>2, <1>3
<1> QED
  BY <1>1, <1>2, <1>3, <1>4

LEMMA AboveIs ==
  ASSUME NEW n, NEW new, IsPrepared(new, n), NEW j \in 1..Len(new)
  PROVE  /\ Above(new, j) \in 0..(j - 1)
         /\ Above(new, j) # 0 => new[Above(new, j)].depth < new[j].depth
         /\ \A p \in 1..(j - 1) : p > Above(new, j) => new[j].depth <= new[p].depth
<1> DEFINE S == {0} \cup {p \in 1..(j - 1) : new[p].depth < new[j].depth}
<1>1. j \in Nat /\ j - 1 \in Nat
  BY UpToIs
<1>2. \A p \in 1..j : new[p].depth \in Nat
  BY UpToIs
<1>3. S \subseteq 0..(j - 1) /\ S # {}
  BY <1>1
<1>4. Max(S) \in S /\ \A p \in S : p <= Max(S)
  <2> HIDE DEF S
  <2> QED
    BY <1>1, <1>3, GreatestIs
<1>5. Above(new, j) = Max(S)
  BY DEF Above
<1>6. Max(S) \in 0..(j - 1)
  BY <1>3, <1>4, Zenon
<1>7. Max(S) # 0 => new[Max(S)].depth < new[j].depth
  BY <1>4
<1>8. ASSUME NEW p \in 1..(j - 1), p > Max(S) PROVE new[j].depth <= new[p].depth
  <2>1. p \notin S
    <3> HIDE DEF S
    <3> QED
      BY <1>4, <1>6, <1>8
  <2>2. ~(new[p].depth < new[j].depth)
    BY <2>1
  <2>3. p \in 1..j /\ j \in 1..j
    BY <1>1
  <2> QED
    BY <1>2, <2>2, <2>3
<1> HIDE DEF S
<1> QED
  BY <1>5, <1>6, <1>7, <1>8

Sec(new, j, path) == [path |-> path, depth |-> new[j].depth, start |-> new[j].start, end |-> new[j].end]

\* The children of the path that start no later.
Elder(sections, path, at) == {s \in Children(sections, path) : s.start <= at}

(* The sections of the first k headings: P tells the path of each, and <<>> *)
(* for the root; siblings are numbered as they appear.                      *)
Placed(new, k, sections, P) ==
  /\ P \in [0..k -> Seq(Nat)] /\ P[0] = <<>>
  /\ \A i, j \in 0..k : P[i] = P[j] => i = j
  /\ sections = {Sec(new, j, P[j]) : j \in 1..k}
  /\ \A j \in 1..k : /\ Front(P[j]) = P[Above(new, j)]
                     /\ Last(P[j]) = Cardinality(Elder(sections, Front(P[j]), new[j].start))

(* The stack holds the ancestors of the k-th heading and itself.            *)
Chained(new, k, stack, P, idx) ==
  /\ Len(stack) \in Nat /\ DOMAIN stack = 1..Len(stack)
  /\ idx \in [0..Len(stack) -> 0..k] /\ idx[0] = 0 /\ idx[Len(stack)] = k
  /\ \A i \in 1..Len(stack) : /\ idx[i] \in 1..k /\ idx[i - 1] = Above(new, idx[i])
                              /\ stack[i] = [depth |-> new[idx[i]].depth, path |-> P[idx[i]]]
  /\ \A i \in 0..Len(stack) : Len(P[idx[i]]) = i

Depths(stack, depth) == {0} \cup {i \in DOMAIN stack : stack[i].depth < depth}

\* What is on top after popping is the parent of the next heading.
LEMMA PoppedToParent ==
  ASSUME NEW n, NEW new, IsPrepared(new, n), NEW k \in Nat, k + 1 \in 1..Len(new),
         NEW stack, NEW P, NEW idx, Chained(new, k, stack, P, idx)
  PROVE  \E r \in 0..Len(stack) : /\ Popped(stack, new[k + 1].depth) = SubSeq(stack, 1, r)
                                  /\ idx[r] = Above(new, k + 1)
<1> DEFINE L == Len(stack)
           d == new[k + 1].depth
           S == Depths(stack, d)
           r == Max(S)
           a == Above(new, k + 1)
<1>1. /\ L \in Nat /\ DOMAIN stack = 1..L
      /\ idx \in [0..L -> 0..k] /\ idx[0] = 0 /\ idx[L] = k
      /\ \A i \in 1..L : idx[i] \in 1..k /\ idx[i - 1] = Above(new, idx[i])
      /\ \A i \in 1..L : stack[i].depth = new[idx[i]].depth
  BY DEF Chained
<1>2. S \subseteq 0..L /\ S # {}
  BY <1>1 DEF Depths
<1>3. r \in S /\ \A i \in S : i <= r
  <2> HIDE DEF S, L
  <2> QED
    BY <1>1, <1>2, GreatestIs
<1>4. r \in 0..L
  BY <1>2, <1>3, Zenon
<1>5. Popped(stack, d) = SubSeq(stack, 1, r)
  BY DEF Popped, Depths
<1>6. /\ a \in 0..k
      /\ a # 0 => new[a].depth < d
      /\ \A p \in 1..k : p > a => d <= new[p].depth
  BY AboveIs
<1> HIDE DEF L, d, a, r
<1>7. d \in Nat /\ \A p \in 1..k : new[p].depth \in Nat
  <2>1. Len(new) \in Nat /\ \A p \in 1..Len(new) : new[p].depth \in Nat
    BY DEF IsPrepared
  <2>2. \A p \in 1..k : p \in 1..Len(new)
    BY <2>1
  <2> QED
    BY <2>1, <2>2 DEF d
<1>8. ASSUME NEW i \in 1..L, i > r PROVE d <= new[idx[i]].depth
  <2>1. i \notin S
    <3> HIDE DEF S
    <3> QED
      BY <1>1, <1>3, <1>4, <1>8
  <2>2. ~(stack[i].depth < d)
    BY <1>1, <2>1 DEF Depths
  <2>3. PICK q : q = idx[i]
    OBVIOUS
  <2>4. q \in 1..k /\ ~(new[q].depth < d)
    BY <1>1, <2>2, <2>3
  <2> QED
    BY <1>7, <2>3, <2>4
<1>9. r # 0 => new[idx[r]].depth < d /\ idx[r] \in 1..k
  <2>1. ASSUME r # 0 PROVE r \in 1..L /\ stack[r].depth < d
    BY <1>1, <1>3, <2>1 DEF Depths
  <2> QED
    BY <1>1, <2>1
<1>10. idx[r] \in 0..k /\ (r = 0 => idx[r] = 0)
  BY <1>1, <1>4
<1>11. ASSUME NEW p \in 1..k, p > idx[r] PROVE d <= new[p].depth
  <2> DEFINE T == {i \in r..L : p <= idx[i]}
  <2>1. L \in T
    BY <1>1, <1>4
  <2>2. PICK i \in T : IsFirst(i, T)
    <3>1. T \subseteq Nat /\ T # {}
      <4>1. r \in Nat
        BY <1>1, <1>4
      <4> QED
        BY <2>1, <4>1
    <3> HIDE DEF T
    <3> QED
      BY <3>1, FirstExists
  <2>3. i \in r..L /\ p <= idx[i]
    BY <2>2
  <2>4. i # r
    BY <1>10, <1>11, <2>3
  <2>5. i \in 1..L /\ i > r /\ i - 1 \in r..L /\ i \in Nat
    BY <1>1, <1>4, <2>3, <2>4
  <2>6. i - 1 \notin T
    <3> HIDE DEF T
    <3> QED
      BY <2>2, <2>5 DEF IsFirst
  <2>7. ~(p <= idx[i - 1])
    BY <2>5, <2>6
  <2>8. d <= new[idx[i]].depth /\ idx[i] \in 1..k /\ idx[i - 1] = Above(new, idx[i])
    BY <1>1, <1>8, <2>5
  <2>9. CASE p = idx[i]
    BY <2>8, <2>9
  <2>10. CASE p # idx[i]
    <3>1. PICK q : q = idx[i]
      OBVIOUS
    <3>2. q \in 1..Len(new) /\ q \in 1..k
      <4>1. Len(new) \in Nat
        BY DEF IsPrepared
      <4> QED
        BY <2>8, <3>1, <4>1
    <3>3. /\ Above(new, q) \in 0..(q - 1)
          /\ \A x \in 1..(q - 1) : x > Above(new, q) => new[q].depth <= new[x].depth
      BY <3>2, AboveIs
    <3>4. p \in 1..(q - 1) /\ p > Above(new, q)
      BY <2>3, <2>7, <2>8, <2>10, <3>1, <3>2, <3>3
    <3>5. new[q].depth <= new[p].depth
      BY <3>3, <3>4
    <3> QED
      BY <1>7, <2>8, <3>1, <3>2, <3>5
  <2> QED
    BY <2>9, <2>10
<1>12. idx[r] = a
  <2>1. PICK q : q = idx[r]
    OBVIOUS
  <2>2. q \in 0..k /\ (q # 0 => new[q].depth < d)
    BY <1>9, <1>10, <2>1
  <2>3. ~(q < a)
    <3> SUFFICES ASSUME q < a PROVE FALSE
      OBVIOUS
    <3>1. a \in 1..k /\ a > q /\ a # 0
      BY <1>6, <2>2
    <3>2. d <= new[a].depth /\ new[a].depth < d /\ new[a].depth \in Nat
      BY <1>6, <1>7, <1>11, <2>1, <3>1
    <3> QED
      BY <1>7, <3>2
  <2>4. ~(a < q)
    <3> SUFFICES ASSUME a < q PROVE FALSE
      OBVIOUS
    <3>1. q \in 1..k /\ q > a /\ q # 0
      BY <1>6, <2>2
    <3>2. d <= new[q].depth /\ new[q].depth < d /\ new[q].depth \in Nat
      BY <1>6, <1>7, <2>2, <3>1
    <3> QED
      BY <1>7, <3>2
  <2> QED
    BY <1>6, <2>1, <2>2, <2>3, <2>4
<1> QED
  BY <1>4, <1>5, <1>12 DEF L, d, a

LEMMA AppendIs ==
  ASSUME NEW q \in Seq(Nat), NEW x \in Nat
  PROVE  /\ Append(q, x) \in Seq(Nat) /\ Len(Append(q, x)) = Len(q) + 1
         /\ Front(Append(q, x)) = q /\ Last(Append(q, x)) = x /\ Append(q, x) # <<>>
<1> DEFINE s == Append(q, x)
<1>1. s \in Seq(Nat) /\ Len(s) = Len(q) + 1 /\ s[Len(q) + 1] = x /\ Len(q) \in Nat
  OBVIOUS
<1>2. \A i \in 1..Len(q) : s[i] = q[i]
  OBVIOUS
<1>3. Last(s) = x
  BY <1>1 DEF Last
<1>4. Front(s) = q
  <2>1. Front(s) = [i \in 1..Len(q) |-> s[i]]
    BY <1>1 DEF Front
  <2>2. q = [i \in 1..Len(q) |-> q[i]]
    OBVIOUS
  <2> QED
    BY <1>2, <2>1, <2>2
<1> QED
  BY <1>1, <1>3, <1>4

Extended(P, k, x) == [j \in 0..(k + 1) |-> IF j <= k THEN P[j] ELSE x]

LEMMA ExtendedIs ==
  ASSUME NEW k \in Nat, NEW P, NEW x, NEW S, P \in [0..k -> S], x \in S
  PROVE  /\ Extended(P, k, x) \in [0..(k + 1) -> S]
         /\ \A j \in 0..k : Extended(P, k, x)[j] = P[j]
         /\ Extended(P, k, x)[k + 1] = x
  BY DEF Extended

LEMMA PlacedIsFinite ==
  ASSUME NEW new, NEW k \in Nat, NEW sections, NEW P, Placed(new, k, sections, P)
  PROVE  /\ IsFiniteSet(sections)
         /\ \A path : /\ IsFiniteSet(Children(sections, path))
                      /\ Cardinality(Children(sections, path)) \in Nat
<1> DEFINE f == [j \in 1..k |-> Sec(new, j, P[j])]
<1>1. sections = {Sec(new, j, P[j]) : j \in 1..k}
  BY DEF Placed
<1>2. f \in Surjection(1..k, sections)
  <2>1. f \in [1..k -> sections]
    BY <1>1
  <2>2. \A s \in sections : \E j \in 1..k : f[j] = s
    BY <1>1
  <2> HIDE DEF f
  <2> QED
    BY <2>1, <2>2 DEF Surjection
<1>3. IsFiniteSet(sections)
  BY <1>2, FS_Interval, FS_Surjection
<1>4. ASSUME NEW path PROVE IsFiniteSet(Children(sections, path))
  <2>1. Children(sections, path) \subseteq sections
    BY DEF Children
  <2> QED
    BY <1>3, <2>1, FS_Subset
<1> QED
  BY <1>3, <1>4, FS_CardinalityType

LEMMA PlacedNext ==
  ASSUME NEW n, NEW new, IsPrepared(new, n), NEW k \in Nat, k + 1 \in 1..Len(new),
         NEW sections, NEW P, Placed(new, k, sections, P),
         NEW parent, parent = P[Above(new, k + 1)],
         NEW path, path = Append(parent, Cardinality(Children(sections, parent)) + 1)
  PROVE  Placed(new, k + 1, sections \cup {Sec(new, k + 1, path)}, Extended(P, k, path))
<1> DEFINE c == Cardinality(Children(sections, parent))
           a == Above(new, k + 1)
           Q == Extended(P, k, path)
           T == sections \cup {Sec(new, k + 1, path)}
<1>1. /\ P \in [0..k -> Seq(Nat)] /\ P[0] = <<>>
      /\ \A i, j \in 0..k : P[i] = P[j] => i = j
      /\ sections = {Sec(new, j, P[j]) : j \in 1..k}
      /\ \A j \in 1..k : /\ Front(P[j]) = P[Above(new, j)]
                         /\ Last(P[j]) = Cardinality(Elder(sections, Front(P[j]), new[j].start))
  BY DEF Placed
<1>2. a \in 0..k /\ parent = P[a] /\ parent \in Seq(Nat)
  <2>1. a \in 0..(k + 1 - 1)
    BY AboveIs
  <2> QED
    BY <1>1, <2>1
<1>3. c \in Nat /\ \A q : IsFiniteSet(Children(sections, q)) /\ Cardinality(Children(sections, q)) \in Nat
  BY PlacedIsFinite
<1> HIDE DEF c, a, Q, T
<1>4. /\ path \in Seq(Nat) /\ path # <<>> /\ Front(path) = parent /\ Last(path) = c + 1
      /\ Len(path) = Len(parent) + 1
  <2>1. path = Append(parent, c + 1)
    BY DEF c
  <2>2. PICK x : x = c + 1
    OBVIOUS
  <2>3. x \in Nat /\ path = Append(parent, x)
    BY <1>3, <2>1, <2>2
  <2>4. /\ path \in Seq(Nat) /\ Len(path) = Len(parent) + 1
        /\ Front(path) = parent /\ Last(path) = x /\ path # <<>>
    BY <1>2, <2>3, AppendIs, Zenon
  <2> QED
    BY <2>2, <2>4
<1>5. Q \in [0..(k + 1) -> Seq(Nat)] /\ (\A j \in 0..k : Q[j] = P[j]) /\ Q[k + 1] = path
  <2>1. PICK S : S = Seq(Nat)
    OBVIOUS
  <2>2. P \in [0..k -> S] /\ path \in S
    BY <1>1, <1>4, <2>1
  <2>3. Q \in [0..(k + 1) -> S] /\ (\A j \in 0..k : Q[j] = P[j]) /\ Q[k + 1] = path
    BY <2>2 DEF Q, Extended
  <2> QED
    BY <2>1, <2>3
<1>6. ASSUME NEW j \in 0..k PROVE P[j] # path
  <2> SUFFICES ASSUME P[j] = path PROVE FALSE
    OBVIOUS
  <2>1. j \in 1..k
    BY <1>1, <1>4
  <2>2. c + 1 = Cardinality(Elder(sections, parent, new[j].start))
    BY <1>1, <1>4, <2>1
  <2>3. Elder(sections, parent, new[j].start) \subseteq Children(sections, parent)
    BY DEF Elder
  <2>4. Cardinality(Elder(sections, parent, new[j].start)) <= Cardinality(Children(sections, parent))
    BY <1>3, <2>3, FS_Subset
  <2> QED
    BY <1>3, <2>2, <2>4 DEF c
<1>7. \A i, j \in 0..(k + 1) : Q[i] = Q[j] => i = j
  <2>1. \A i \in 0..(k + 1) : i \in 0..k \/ i = k + 1
    OBVIOUS
  <2> QED
    BY <1>1, <1>5, <1>6, <2>1
<1>8. T = {Sec(new, j, Q[j]) : j \in 1..(k + 1)}
  <2>1. \A i : i \in 1..(k + 1) <=> i \in 1..k \/ i = k + 1
    OBVIOUS
  <2>2. \A i \in 1..k : Sec(new, i, Q[i]) = Sec(new, i, P[i])
    BY <1>5
  <2>3. Sec(new, k + 1, Q[k + 1]) = Sec(new, k + 1, path)
    BY <1>5
  <2> QED
    BY <1>1, <2>1, <2>2, <2>3 DEF T
<1>9. ASSUME NEW i \in 1..k PROVE new[i].start < new[k + 1].start /\ new[i].start \in Nat /\ new[k + 1].start \in Nat
  <2>1. PICK m : m = Len(new)
    OBVIOUS
  <2>2. /\ m \in Nat /\ \A x \in 1..m : new[x].start \in 1..n
        /\ \A x, y \in 1..m : x < y => new[x].start < new[y].start
    BY <2>1 DEF IsPrepared
  <2>3. i \in 1..m /\ k + 1 \in 1..m /\ i < k + 1
    BY <2>1, <2>2
  <2>4. \A x \in 1..n : x \in Nat
    OBVIOUS
  <2> QED
    BY <2>2, <2>3, <2>4
<1> DEFINE s == Sec(new, k + 1, path)
<1>13. s.path = path /\ s.start = new[k + 1].start
  BY DEF Sec
<1>14. T = sections \cup {s}
  BY DEF T
<1> HIDE DEF s
<1>15. \A x \in sections : x.start < s.start /\ x.start \in Nat /\ s.start \in Nat
  <2>1. ASSUME NEW x \in sections PROVE x.start < s.start /\ x.start \in Nat /\ s.start \in Nat
    <3>1. PICK i \in 1..k : x = Sec(new, i, P[i])
      BY <1>1
    <3>2. x.start = new[i].start
      BY <3>1 DEF Sec
    <3> QED
      BY <1>9, <1>13, <3>2
  <2> QED
    BY <2>1
<1>10. Cardinality(Children(T, parent)) = c + 1 /\ s \in Children(T, parent)
  <2>1. s \notin sections
    <3> SUFFICES ASSUME s \in sections PROVE FALSE
      OBVIOUS
    <3>1. PICK j \in 1..k : s = Sec(new, j, P[j])
      BY <1>1
    <3>2. s.path = P[j]
      BY <3>1 DEF Sec
    <3> QED
      BY <1>6, <1>13, <3>2
  <2>2. Len(s.path) = Len(parent) + 1 /\ Front(s.path) = parent
    BY <1>4, <1>13
  <2>3. Children(T, parent) = Children(sections, parent) \cup {s}
    BY <1>14, <2>2 DEF Children
  <2>4. s \notin Children(sections, parent)
    BY <2>1 DEF Children
  <2> QED
    BY <1>3, <2>3, <2>4, FS_AddElement DEF c
<1>16. Elder(T, parent, s.start) = Children(T, parent)
  <2>1. s.start \in Nat
    <3>1. s.start \in 1..n
      BY <1>13 DEF IsPrepared
    <3>2. \A x \in 1..n : x \in Nat
      OBVIOUS
    <3> QED
      BY <3>1, <3>2
  <2>2. \A x \in Children(T, parent) : x.start <= s.start
    <3>1. \A x \in Children(T, parent) : x \in sections \/ x = s
      BY <1>14 DEF Children
    <3> QED
      BY <1>15, <2>1, <3>1
  <2> QED
    BY <2>2 DEF Elder
<1>11. ASSUME NEW j \in 1..(k + 1)
       PROVE  /\ Front(Q[j]) = Q[Above(new, j)]
              /\ Last(Q[j]) = Cardinality(Elder(T, Front(Q[j]), new[j].start))
  <2>1. CASE j = k + 1
    <3>1. Q[j] = path /\ Q[a] = P[a]
      BY <1>2, <1>5, <2>1
    <3>2. Front(Q[j]) = parent /\ Last(Q[j]) = c + 1 /\ new[j].start = s.start
      BY <1>4, <1>13, <2>1, <3>1
    <3> QED
      BY <1>2, <1>10, <1>16, <2>1, <3>1, <3>2 DEF a
  <2>2. CASE j # k + 1
    <3>1. j \in 1..k /\ j \in 1..Len(new)
      <4>1. j \in 1..k
        BY <2>2
      <4>2. k + 1 - 1 = k
        OBVIOUS
      <4> QED
        BY <4>1, UpToIs
    <3>2. Above(new, j) \in 0..k
      <4>1. Above(new, j) \in 0..(j - 1)
        BY <3>1, AboveIs
      <4> QED
        BY <3>1, <4>1
    <3>3. Q[j] = P[j] /\ Q[Above(new, j)] = P[Above(new, j)]
      <4>1. \A x \in 0..k : Q[x] = P[x]
        BY <1>5
      <4>2. j \in 0..k
        BY <3>1
      <4> QED
        BY <3>2, <4>1, <4>2, Zenon
    <3>4. ASSUME NEW q PROVE Elder(T, q, new[j].start) = Elder(sections, q, new[j].start)
      <4>1. ~(s.start <= new[j].start)
        BY <1>9, <1>13, <3>1
      <4> QED
        BY <1>14, <4>1 DEF Elder, Children
    <3> QED
      BY <1>1, <3>1, <3>3, <3>4
  <2> QED
    BY <2>1, <2>2
<1>12. Q[0] = <<>>
  BY <1>1, <1>5
<1> QED
  BY <1>5, <1>7, <1>8, <1>11, <1>12 DEF Placed, Q, T

Entry(new, j, path) == [depth |-> new[j].depth, path |-> path]

LEMMA ChainedNext ==
  ASSUME NEW n, NEW new, IsPrepared(new, n), NEW k \in Nat, k + 1 \in 1..Len(new),
         NEW stack, NEW P, P \in [0..k -> Seq(Nat)], NEW idx, Chained(new, k, stack, P, idx),
         NEW r \in 0..Len(stack), idx[r] = Above(new, k + 1),
         NEW path \in Seq(Nat), Len(path) = r + 1
  PROVE  Chained(new, k + 1, Append(SubSeq(stack, 1, r), Entry(new, k + 1, path)),
                 Extended(P, k, path), Extended([i \in 0..r |-> idx[i]], r, k + 1))
<1> DEFINE L == Len(stack)
           Q == Extended(P, k, path)
           jdx == Extended([i \in 0..r |-> idx[i]], r, k + 1)
           e == Entry(new, k + 1, path)
           popped == SubSeq(stack, 1, r)
           next == Append(popped, e)
<1>1. /\ L \in Nat /\ DOMAIN stack = 1..L
      /\ idx \in [0..L -> 0..k] /\ idx[0] = 0
      /\ \A i \in 1..L : /\ idx[i] \in 1..k /\ idx[i - 1] = Above(new, idx[i])
                         /\ stack[i] = [depth |-> new[idx[i]].depth, path |-> P[idx[i]]]
      /\ \A i \in 0..L : Len(P[idx[i]]) = i
  BY DEF Chained
<1>2. r \in 0..L /\ r \in Nat /\ L \in Nat /\ r <= L
  BY <1>1
<1> HIDE DEF L, Q, jdx, e
<1>3. Len(popped) = r /\ DOMAIN popped = 1..r /\ \A i \in 1..r : popped[i] = stack[i]
  <2>1. popped = [i \in 1..r |-> stack[i]]
    BY <1>2
  <2> QED
    BY <1>2, <2>1
<1>4. /\ Len(next) = r + 1 /\ DOMAIN next = 1..(r + 1) /\ next[r + 1] = e
      /\ \A i \in 1..r : next[i] = stack[i]
  <2>1. next = [i \in 1..(r + 1) |-> IF i = r + 1 THEN e ELSE popped[i]]
    BY <1>3
  <2> HIDE DEF popped, next
  <2> QED
    BY <1>2, <1>3, <2>1
<1> HIDE DEF next
<1>5. Q[k + 1] = path /\ \A j \in 0..k : Q[j] = P[j]
  BY DEF Q, Extended
<1>6. /\ jdx \in [0..(r + 1) -> 0..(k + 1)] /\ jdx[r + 1] = k + 1
      /\ \A i \in 0..r : jdx[i] = idx[i] /\ idx[i] \in 0..k
  <2>1. \A i \in 0..r : i \in 0..L
    BY <1>1, <1>2
  <2>2. \A i \in 0..r : idx[i] \in 0..k
    BY <1>1, <2>1
  <2>3. jdx = [i \in 0..(r + 1) |-> IF i <= r THEN idx[i] ELSE k + 1]
    BY DEF jdx, Extended
  <2>4. \A i \in 0..(r + 1) : i \in 0..r \/ (i = r + 1 /\ ~(i <= r))
    BY <1>2
  <2>5. \A i \in 0..r : jdx[i] = idx[i]
    BY <1>2, <2>3
  <2>6. jdx[r + 1] = k + 1
    BY <1>2, <2>3
  <2>7. ASSUME NEW i \in 0..(r + 1) PROVE jdx[i] \in 0..(k + 1)
    <3>1. PICK q : q = jdx[i]
      OBVIOUS
    <3>2. q \in 0..k \/ q = k + 1
      BY <2>2, <2>4, <2>5, <2>6, <3>1
    <3> QED
      BY <3>1, <3>2
  <2> QED
    BY <2>2, <2>3, <2>5, <2>6, <2>7
<1>7. jdx[0] = 0
  BY <1>1, <1>2, <1>6
<1>8. ASSUME NEW i \in 1..(r + 1)
      PROVE  /\ jdx[i] \in 1..(k + 1) /\ jdx[i - 1] = Above(new, jdx[i])
             /\ next[i] = [depth |-> new[jdx[i]].depth, path |-> Q[jdx[i]]]
  <2>1. CASE i = r + 1
    <3>1. i - 1 = r /\ r \in 0..r
      BY <1>2, <2>1
    <3>2. jdx[i - 1] = Above(new, k + 1) /\ jdx[i] = k + 1
      BY <1>6, <2>1, <3>1
    <3> QED
      BY <1>4, <1>5, <2>1, <3>2 DEF e, Entry
  <2>2. CASE i # r + 1
    <3>1. i \in 1..L /\ i \in 0..r /\ i - 1 \in 0..r /\ i \in 1..r
      BY <1>2, <2>2
    <3>2. jdx[i] = idx[i] /\ jdx[i - 1] = idx[i - 1] /\ next[i] = stack[i]
      BY <1>4, <1>6, <3>1
    <3>3. PICK q : q = idx[i]
      OBVIOUS
    <3>4. q \in 1..k /\ q \in 0..k /\ q \in 1..(k + 1)
      BY <1>1, <3>1, <3>3
    <3>5. Q[q] = P[q]
      BY <1>5, <3>4
    <3> QED
      BY <1>1, <3>1, <3>2, <3>3, <3>4, <3>5
  <2> QED
    BY <2>1, <2>2
<1>9. ASSUME NEW i \in 0..(r + 1) PROVE Len(Q[jdx[i]]) = i
  <2>1. CASE i = r + 1
    BY <1>5, <1>6, <2>1
  <2>2. CASE i # r + 1
    <3>1. i \in 0..r /\ i \in 0..L
      BY <1>2, <2>2
    <3>2. jdx[i] = idx[i] /\ Q[idx[i]] = P[idx[i]]
      BY <1>5, <1>6, <3>1
    <3> QED
      BY <1>1, <3>1, <3>2
  <2> QED
    BY <2>1, <2>2
<1>10. r + 1 \in Nat
  BY <1>2
<1> QED
  BY <1>4, <1>6, <1>7, <1>8, <1>9, <1>10 DEF Chained, next, popped, e, Q, jdx

\* One section more keeps the shape, and no pointer to what moves.
LEMMA SectionIsPlaced ==
  ASSUME NEW n, NEW new, IsPrepared(new, n), NEW k \in Nat, k + 1 \in 1..Len(new),
         NEW t, NEW P, NEW idx, Placed(new, k, t.sections, P), Chained(new, k, t.stack, P, idx), ~t.dangling
  PROVE  \E Q, jdx : /\ Placed(new, k + 1, AddSection(t, new[k + 1]).sections, Q)
                     /\ Chained(new, k + 1, AddSection(t, new[k + 1]).stack, Q, jdx)
                     /\ ~AddSection(t, new[k + 1]).dangling
<1> DEFINE h == new[k + 1]
           L == Len(t.stack)
           a == Above(new, k + 1)
           stack == Popped(t.stack, h.depth)
           parent == IF stack = <<>> THEN <<>> ELSE Last(stack).path
           path == Append(parent, Cardinality(Children(t.sections, parent)) + 1)
           u == AddSection(t, h)
<1>1. PICK r \in 0..L : stack = SubSeq(t.stack, 1, r) /\ idx[r] = a
  BY PoppedToParent
<1>2. /\ L \in Nat /\ DOMAIN t.stack = 1..L
      /\ idx \in [0..L -> 0..k] /\ idx[0] = 0
      /\ \A i \in 1..L : t.stack[i].path = P[idx[i]]
      /\ \A i \in 0..L : Len(P[idx[i]]) = i
  <2>1. PICK s : s = t.stack
    OBVIOUS
  <2>2. Chained(new, k, s, P, idx)
    BY <2>1
  <2>3. /\ Len(s) \in Nat /\ DOMAIN s = 1..Len(s)
        /\ idx \in [0..Len(s) -> 0..k] /\ idx[0] = 0
        /\ \A i \in 1..Len(s) : s[i].path = P[idx[i]]
        /\ \A i \in 0..Len(s) : Len(P[idx[i]]) = i
    BY <2>2 DEF Chained
  <2> QED
    BY <2>1, <2>3
<1>3. P \in [0..k -> Seq(Nat)] /\ P[0] = <<>>
  BY DEF Placed
<1>4. /\ u.sections = t.sections \cup {[path |-> path, depth |-> h.depth, start |-> h.start, end |-> h.end]}
      /\ u.stack = Append(stack, [depth |-> h.depth, path |-> path])
      /\ u.dangling = (t.dangling \/ \E i \in DOMAIN stack : stack[i].path # <<>> /\ Front(stack[i].path) = parent)
  BY DEF AddSection
<1>5. /\ u.sections = t.sections \cup {Sec(new, k + 1, path)}
      /\ u.stack = Append(stack, Entry(new, k + 1, path))
  BY <1>4 DEF Sec, Entry
<1> HIDE DEF h, L, a, stack, path, u
<1>6. r \in Nat /\ idx[r] \in 0..k /\ a \in 0..k
  BY <1>1, <1>2
<1>7. Len(stack) = r /\ DOMAIN stack = 1..r /\ \A i \in 1..r : stack[i] = t.stack[i]
  <2>1. stack = [i \in 1..r |-> t.stack[i]]
    BY <1>1, <1>6
  <2> QED
    BY <1>6, <2>1
<1>8. parent = P[a]
  <2>1. CASE r = 0
    <3>1. stack = <<>>
      <4>1. stack = SubSeq(t.stack, 1, 0)
        BY <1>1, <2>1
      <4> QED
        BY <4>1
    <3> QED
      BY <1>1, <1>2, <1>3, <2>1, <3>1
  <2>2. CASE r # 0
    <3>1. r \in 1..r /\ r \in 1..L
      BY <1>1, <1>2, <1>6, <2>2
    <3>2. stack # <<>>
      BY <1>7, <2>2
    <3>3. Last(stack) = t.stack[r]
      BY <1>7, <3>1 DEF Last
    <3> QED
      BY <1>1, <1>2, <3>1, <3>2, <3>3
  <2> QED
    BY <2>1, <2>2
<1>9. Len(parent) = r /\ parent \in Seq(Nat)
  <2>1. Len(P[idx[r]]) = r /\ P[a] \in Seq(Nat)
    BY <1>2, <1>3, <1>6
  <2> QED
    BY <1>1, <1>8, <2>1
<1> HIDE DEF parent
<1>10. path = Append(parent, Cardinality(Children(t.sections, parent)) + 1)
  BY DEF path, parent
<1>11. path \in Seq(Nat) /\ Len(path) = r + 1
  <2>1. PICK x : x = Cardinality(Children(t.sections, parent)) + 1
    OBVIOUS
  <2>2. x \in Nat
    BY <2>1, PlacedIsFinite
  <2>3. path \in Seq(Nat) /\ Len(path) = Len(parent) + 1
    BY <1>9, <1>10, <2>1, <2>2, AppendIs
  <2> QED
    BY <1>9, <2>3
<1>12. Placed(new, k + 1, u.sections, Extended(P, k, path))
  <2>1. parent = P[Above(new, k + 1)]
    BY <1>8 DEF a
  <2>2. Placed(new, k + 1, t.sections \cup {Sec(new, k + 1, path)}, Extended(P, k, path))
    BY <1>10, <2>1, PlacedNext
  <2> QED
    BY <1>5, <2>2
<1>13. Chained(new, k + 1, u.stack, Extended(P, k, path), Extended([i \in 0..r |-> idx[i]], r, k + 1))
  <2>1. u.stack = Append(SubSeq(t.stack, 1, r), Entry(new, k + 1, path))
    BY <1>1, <1>5
  <2>2. r \in 0..Len(t.stack) /\ idx[r] = Above(new, k + 1)
    BY <1>1 DEF L, a
  <2>3. Chained(new, k + 1, Append(SubSeq(t.stack, 1, r), Entry(new, k + 1, path)),
                Extended(P, k, path), Extended([i \in 0..r |-> idx[i]], r, k + 1))
    BY <1>3, <1>11, <2>2, ChainedNext
  <2> QED
    BY <2>1, <2>3
<1>14. ~u.dangling
  <2> SUFFICES ASSUME NEW i \in DOMAIN stack, stack[i].path # <<>>, Front(stack[i].path) = parent
               PROVE  FALSE
    BY <1>4 DEF parent
  <2>1. i \in 1..r /\ i \in 1..L /\ i \in 0..L
    BY <1>1, <1>2, <1>6, <1>7
  <2>2. stack[i].path = P[idx[i]] /\ idx[i] \in 0..k
    BY <1>2, <1>7, <2>1
  <2>3. PICK q \in Seq(Nat) : q = stack[i].path
    BY <1>3, <2>2
  <2>4. Len(q) = i
    BY <1>2, <2>1, <2>2, <2>3
  <2>5. Len(Front(q)) = i - 1
    <3>1. Front(q) = [j \in 1..(i - 1) |-> q[j]]
      BY <2>1, <2>4 DEF Front
    <3>2. i - 1 \in Nat
      BY <2>1
    <3> QED
      BY <3>1, <3>2
  <2> QED
    BY <1>9, <2>1, <2>3, <2>5
<1> QED
  BY <1>12, <1>13, <1>14 DEF u, h

Sections == [path : Seq(Nat), depth : Nat, start : Nat, end : Nat]
Entries == [depth : Nat, path : Seq(Nat)]
TreeStates == [sections : {S \in SUBSET Sections : IsFiniteSet(S)}, stack : Seq(Entries), dangling : BOOLEAN]

LEMMA AddSectionIsState ==
  ASSUME NEW t \in TreeStates, NEW h, h.depth \in Nat, h.start \in Nat, h.end \in Nat
  PROVE  AddSection(t, h) \in TreeStates
<1> DEFINE S == Depths(t.stack, h.depth)
           stack == Popped(t.stack, h.depth)
           parent == IF stack = <<>> THEN <<>> ELSE Last(stack).path
           c == Cardinality(Children(t.sections, parent))
           path == Append(parent, c + 1)
           section == [path |-> path, depth |-> h.depth, start |-> h.start, end |-> h.end]
           entry == [depth |-> h.depth, path |-> path]
           dangles == t.dangling \/ \E i \in DOMAIN stack : stack[i].path # <<>> /\ Front(stack[i].path) = parent
<1>1. t.sections \in SUBSET Sections /\ IsFiniteSet(t.sections) /\ t.stack \in Seq(Entries) /\ t.dangling \in BOOLEAN
  BY DEF TreeStates
<1>2. stack \in Seq(Entries)
  <2>1. PICK s \in Seq(Entries) : s = t.stack
    BY <1>1
  <2>2. Depths(s, h.depth) \subseteq 0..Len(s) /\ Depths(s, h.depth) # {}
    BY DEF Depths
  <2>3. Max(Depths(s, h.depth)) \in 0..Len(s)
    BY <2>2, GreatestIs
  <2>4. Popped(s, h.depth) = SubSeq(s, 1, Max(Depths(s, h.depth)))
    BY DEF Popped, Depths
  <2> QED
    BY <2>1, <2>3, <2>4
<1> HIDE DEF stack
<1>3. parent \in Seq(Nat)
  <2>1. CASE stack = <<>>
    BY <2>1
  <2>2. CASE stack # <<>>
    <3>1. Last(stack) \in Entries
      BY <1>2, <2>2 DEF Last
    <3> QED
      BY <2>2, <3>1 DEF Entries
  <2> QED
    BY <2>1, <2>2
<1> HIDE DEF parent
<1>4. c \in Nat
  <2>1. Children(t.sections, parent) \subseteq t.sections
    BY DEF Children
  <2> QED
    BY <1>1, <2>1, FS_Subset, FS_CardinalityType
<1>5. path \in Seq(Nat)
  BY <1>3, <1>4
<1> HIDE DEF c, path
<1>6. section \in Sections /\ entry \in Entries
  BY <1>5 DEF Sections, Entries
<1> HIDE DEF section, entry
<1>7. t.sections \cup {section} \in SUBSET Sections /\ IsFiniteSet(t.sections \cup {section})
  BY <1>1, <1>6, FS_AddElement
<1>8. Append(stack, entry) \in Seq(Entries)
  BY <1>2, <1>6
<1>9. dangles \in BOOLEAN
  OBVIOUS
<1> HIDE DEF dangles
<1>10. AddSection(t, h) = [sections |-> t.sections \cup {section}, stack |-> Append(stack, entry), dangling |-> dangles]
  BY DEF AddSection, stack, parent, c, path, section, entry, dangles
<1> QED
  BY <1>7, <1>8, <1>9, <1>10 DEF TreeStates

NoSections == [sections |-> {}, stack |-> <<>>, dangling |-> FALSE]

LEMMA AssembledIs ==
  ASSUME NEW n \in Nat, NEW new, IsPrepared(new, n)
  PROVE  /\ Assembled(new) \in [0..Len(new) -> TreeStates]
         /\ Assembled(new)[0] = NoSections
         /\ \A k \in 1..Len(new) : Assembled(new)[k] = AddSection(Assembled(new)[k - 1], new[k])
<1> DEFINE X == TreeStates
           m == Len(new)
           step == [d \in Nat |-> [t \in X |-> IF d \in 1..m THEN AddSection(t, new[d]) ELSE t]]
           IsAssembled(g) == g = [k \in 0..m |-> IF k = 0 THEN NoSections ELSE AddSection(g[k - 1], new[k])]
<1>1. m \in Nat /\ \A j \in 1..m : new[j].depth \in Nat /\ new[j].start \in Nat /\ new[j].end \in Nat
  <2>1. PICK c : c = Len(new)
    OBVIOUS
  <2>2. c \in Nat /\ \A j \in 1..c : new[j].depth \in Nat /\ new[j].start \in 1..n /\ new[j].end \in 1..(n + 1)
    BY <2>1 DEF IsPrepared
  <2>3. \A x \in 1..n : x \in Nat
    OBVIOUS
  <2>4. \A x \in 1..(n + 1) : x \in Nat
    OBVIOUS
  <2> QED
    BY <2>1, <2>2, <2>3, <2>4
<1> HIDE DEF m
<1>2. \A d \in 1..m, t \in X : AddSection(t, new[d]) \in X
  BY <1>1, AddSectionIsState
<1>3. step \in [Nat -> [X -> X]]
  <2> HIDE DEF X
  <2> QED
    BY <1>2
<1>4. NoSections \in X
  <2>1. {} \in SUBSET Sections /\ IsFiniteSet({})
    BY FS_EmptySet
  <2>2. <<>> \in Seq(Entries)
    OBVIOUS
  <2> QED
    BY <2>1, <2>2 DEF NoSections, TreeStates
<1>5. Assembled(new) = CHOOSE g : IsAssembled(g)
  BY DEF Assembled, NoSections, m
<1> HIDE DEF X, step
<1>6. PICK g : Unfolds(g, m, X, NoSections, step)
  <2>1. PICK Y, b, f : Y = X /\ b = NoSections /\ f = step
    OBVIOUS
  <2>2. b \in Y /\ f \in [Nat -> [Y -> Y]]
    BY <1>3, <1>4, <2>1
  <2>3. PICK g : Unfolds(g, m, Y, b, f)
    BY <1>1, <2>2, RecursionExists
  <2> QED
    BY <2>1, <2>3
<1>7. ASSUME NEW k \in 1..m PROVE g[k] = AddSection(g[k - 1], new[k])
  <2>1. k \in Nat /\ g[k - 1] \in X
    BY <1>1, <1>6 DEF Unfolds
  <2>2. step[k][g[k - 1]] = AddSection(g[k - 1], new[k])
    BY <2>1 DEF step
  <2> QED
    BY <1>6, <2>2 DEF Unfolds
<1>8. IsAssembled(g)
  <2>1. g \in [0..m -> X] /\ g[0] = NoSections
    BY <1>6 DEF Unfolds
  <2>2. \A k \in 0..m : k # 0 => k \in 1..m
    BY <1>1
  <2>3. \A k \in 0..m : g[k] = IF k = 0 THEN NoSections ELSE AddSection(g[k - 1], new[k])
    BY <1>7, <2>1, <2>2
  <2> QED
    BY <2>1, <2>3
<1> DEFINE w == Assembled(new)
<1>9. IsAssembled(w)
  <2> HIDE DEF IsAssembled
  <2> QED
    BY <1>5, <1>8
<1> HIDE DEF w
<1>10. Unfolds(w, m, X, NoSections, step)
  <2>1. w = [k \in 0..m |-> w[k]]
    BY <1>9, Zenon
  <2>2. w[0] = NoSections
    BY <1>1, <1>9
  <2>3. ASSUME NEW k \in 1..m, w[k - 1] \in X PROVE w[k] = step[k][w[k - 1]]
    <3>1. k \in 0..m /\ k # 0 /\ k \in Nat
      BY <1>1
    <3>2. w[k] = AddSection(w[k - 1], new[k])
      BY <1>9, <3>1
    <3>3. step[k][w[k - 1]] = AddSection(w[k - 1], new[k])
      BY <2>3, <3>1 DEF step
    <3> QED
      BY <3>2, <3>3
  <2>4. PICK Y, b, f : Y = X /\ b = NoSections /\ f = step
    OBVIOUS
  <2>5. /\ b \in Y /\ f \in [Nat -> [Y -> Y]] /\ w[0] = b
        /\ \A k \in 1..m : w[k - 1] \in Y => w[k] = f[k][w[k - 1]]
    BY <1>3, <1>4, <2>2, <2>3, <2>4
  <2>6. Unfolds(w, m, Y, b, f)
    BY <1>1, <2>1, <2>5, RecursionIs
  <2> QED
    BY <2>4, <2>6
<1>11. w \in [0..m -> X] /\ w[0] = NoSections
  BY <1>10 DEF Unfolds
<1>12. ASSUME NEW k \in 1..m PROVE w[k] = AddSection(w[k - 1], new[k])
  <2>1. k \in Nat /\ w[k - 1] \in X
    BY <1>1, <1>11
  <2>2. step[k][w[k - 1]] = AddSection(w[k - 1], new[k])
    BY <2>1 DEF step
  <2> QED
    BY <1>10, <2>2 DEF Unfolds
<1> QED
  BY <1>11, <1>12 DEF w, m, X

\* After each heading the sections so far are in place.
WellBuilt(new, k, t) ==
  \E P, idx : Placed(new, k, t.sections, P) /\ Chained(new, k, t.stack, P, idx) /\ ~t.dangling

LEMMA AssembledIsWellBuilt ==
  ASSUME NEW n \in Nat, NEW new, IsPrepared(new, n), NEW k \in 0..Len(new)
  PROVE  WellBuilt(new, k, Assembled(new)[k])
<1> DEFINE w == Assembled(new)
           m == Len(new)
           S == {d \in 0..m : ~WellBuilt(new, d, w[d])}
<1>1. m \in Nat
  BY DEF IsPrepared
<1>2. w[0] = NoSections /\ \A d \in 1..m : w[d] = AddSection(w[d - 1], new[d])
  BY AssembledIs
<1> HIDE DEF w
<1>3. WellBuilt(new, 0, w[0])
  <2> DEFINE P == [j \in 0..0 |-> <<>>]
             idx == [j \in 0..0 |-> 0]
  <2>1. w[0].sections = {} /\ w[0].stack = <<>> /\ ~w[0].dangling
    BY <1>2 DEF NoSections
  <2>2. 1..0 = {} /\ 0..0 = {0}
    OBVIOUS
  <2>3. P \in [0..0 -> Seq(Nat)] /\ P[0] = <<>> /\ Len(P[0]) = 0
    BY <2>2
  <2>4. idx \in [0..0 -> 0..0] /\ idx[0] = 0
    BY <2>2
  <2> HIDE DEF P, idx
  <2>5. Placed(new, 0, {}, P)
    BY <2>2, <2>3 DEF Placed
  <2>6. Len(<<>>) = 0 /\ DOMAIN <<>> = 1..0
    BY <2>2
  <2>7. Chained(new, 0, <<>>, P, idx)
    BY <2>2, <2>3, <2>4, <2>6 DEF Chained
  <2> QED
    BY <2>1, <2>5, <2>7 DEF WellBuilt
<1>4. ASSUME S # {} PROVE FALSE
  <2>1. PICK d \in S : IsFirst(d, S)
    <3>1. S \subseteq Nat
      BY <1>1
    <3> HIDE DEF S
    <3> QED
      BY <1>4, <3>1, FirstExists
  <2>2. d \in 0..m /\ ~WellBuilt(new, d, w[d]) /\ d # 0
    BY <1>3, <2>1
  <2>3. d \in 1..m /\ d - 1 \in 0..m /\ ~(d <= d - 1) /\ d - 1 \in Nat /\ (d - 1) + 1 = d
    BY <1>1, <2>2
  <2>4. WellBuilt(new, d - 1, w[d - 1])
    <3>1. d - 1 \notin S
      <4> HIDE DEF S
      <4> QED
        BY <2>1, <2>3 DEF IsFirst
    <3> QED
      BY <2>3, <3>1
  <2>5. PICK q \in Nat : q = d - 1
    BY <2>3
  <2>6. PICK t : t = w[q]
    OBVIOUS
  <2>7. PICK P, idx : Placed(new, q, t.sections, P) /\ Chained(new, q, t.stack, P, idx) /\ ~t.dangling
    BY <2>4, <2>5, <2>6 DEF WellBuilt
  <2>8. q + 1 \in 1..Len(new)
    BY <2>3, <2>5
  <2>9. \E Q, jdx : /\ Placed(new, q + 1, AddSection(t, new[q + 1]).sections, Q)
                     /\ Chained(new, q + 1, AddSection(t, new[q + 1]).stack, Q, jdx)
                     /\ ~AddSection(t, new[q + 1]).dangling
    BY <2>7, <2>8, SectionIsPlaced
  <2>10. q + 1 = d /\ AddSection(t, new[q + 1]) = w[d]
    BY <1>2, <2>3, <2>5, <2>6
  <2>11. WellBuilt(new, d, w[d])
    BY <2>9, <2>10 DEF WellBuilt
  <2> QED
    BY <2>2, <2>11
<1> QED
  BY <1>4 DEF w

\* The sections of a whole body: one for each heading, each found by its path.
LEMMA SectionsAre ==
  ASSUME NEW n \in Nat, NEW new, IsPrepared(new, n), NEW sections, NEW P, Placed(new, Len(new), sections, P)
  PROVE  /\ IsFiniteSet(sections) /\ Cardinality(sections) = Len(new)
         /\ sections = {Sec(new, j, P[j]) : j \in 1..Len(new)}
         /\ \A i, j \in 1..Len(new) : Sec(new, i, P[i]) = Sec(new, j, P[j]) => i = j
<1> DEFINE m == Len(new)
           f == [j \in 1..m |-> Sec(new, j, P[j])]
<1>1. m \in Nat
  BY DEF IsPrepared
<1> HIDE DEF m
<1>2. sections = {Sec(new, j, P[j]) : j \in 1..m}
  BY DEF Placed, m
<1>3. ASSUME NEW i \in 1..m, NEW j \in 1..m, Sec(new, i, P[i]) = Sec(new, j, P[j]) PROVE i = j
  <2>1. P[i] = P[j]
    BY <1>3 DEF Sec
  <2>2. \A x, y \in 0..m : P[x] = P[y] => x = y
    BY DEF Placed, m
  <2>3. i \in 0..m /\ j \in 0..m
    BY <1>1
  <2> QED
    BY <2>1, <2>2, <2>3
<1>4. f \in Surjection(1..m, sections) /\ f \in Injection(1..m, sections)
  <2>1. f \in [1..m -> sections]
    BY <1>2
  <2>2. \A s \in sections : \E j \in 1..m : f[j] = s
    BY <1>2
  <2>3. \A i, j \in 1..m : f[i] = f[j] => i = j
    BY <1>3
  <2> HIDE DEF f
  <2> QED
    BY <2>1, <2>2, <2>3 DEF Surjection, Injection, IsInjective
<1>5. IsFiniteSet(1..m) /\ Cardinality(1..m) = m
  BY <1>1, FS_Interval
<1>6. IsFiniteSet(sections) /\ Cardinality(sections) = m
  <2> HIDE DEF f
  <2>1. IsFiniteSet(sections)
    BY <1>4, <1>5, FS_Surjection
  <2>2. ExistsBijection(1..m, sections)
    BY <1>4 DEF Bijection, ExistsBijection
  <2>3. Cardinality(sections) = Cardinality(1..m)
    BY <1>5, <2>1, <2>2, FS_Bijection
  <2> QED
    BY <1>5, <2>1, <2>3
<1> QED
  BY <1>2, <1>3, <1>6 DEF m

\* They cut the body from the first heading on.
LEMMA SectionsCut ==
  ASSUME NEW n \in Nat, NEW new, IsPrepared(new, n), NEW i \in 1..n, NEW b \in 1..Len(new), new[b].start <= i
  PROVE  \E j \in 1..Len(new) : \A k \in 1..Len(new) : i \in new[k].start..(new[k].end - 1) <=> k = j
<1> DEFINE m == Len(new)
           S == {k \in 1..m : new[k].start <= i}
<1>1. /\ m \in Nat /\ \A k \in 1..m : new[k].start \in 1..n /\ new[k].end \in 1..(n + 1)
      /\ \A j, k \in 1..m : j < k => new[j].start < new[k].start
      /\ \A k \in 1..m : new[k].end = IF k = m THEN n + 1 ELSE new[k + 1].start
  BY DEF IsPrepared
<1> HIDE DEF m
<1>2. b \in S /\ S \subseteq 0..m
  BY <1>1 DEF m
<1>3. Max(S) \in S /\ \A k \in S : k <= Max(S)
  <2> HIDE DEF S
  <2> QED
    BY <1>1, <1>2, GreatestIs
<1>4. PICK j : j = Max(S)
  OBVIOUS
<1>5. j \in 1..m /\ new[j].start <= i /\ \A k \in S : k <= j
  BY <1>3, <1>4
<1> HIDE DEF S
<1>6. ASSUME NEW k \in 1..m, j < k PROVE i < new[k].start
  <2>1. k \notin S
    BY <1>1, <1>5, <1>6
  <2>2. ~(new[k].start <= i)
    BY <2>1 DEF S
  <2> QED
    BY <1>1, <2>2
<1>7. i \in new[j].start..(new[j].end - 1)
  <2>1. CASE j = m
    <3>1. new[j].end = n + 1 /\ new[j].start \in 1..n
      BY <1>1, <1>5, <2>1
    <3> QED
      BY <1>5, <3>1
  <2>2. CASE j # m
    <3>1. j + 1 \in 1..m /\ j < j + 1
      BY <1>1, <1>5, <2>2
    <3>2. new[j].end = new[j + 1].start /\ new[j].start \in 1..n /\ new[j + 1].start \in 1..n
      BY <1>1, <1>5, <2>2, <3>1
    <3>3. i < new[j + 1].start
      BY <1>6, <3>1
    <3> QED
      BY <1>5, <3>2, <3>3
  <2> QED
    BY <2>1, <2>2
<1>8. ASSUME NEW k \in 1..m, i \in new[k].start..(new[k].end - 1) PROVE k = j
  <2>1. new[k].start \in 1..n /\ new[k].end \in 1..(n + 1) /\ new[k].start <= i /\ i < new[k].end
    BY <1>1, <1>8
  <2>2. ~(j < k)
    BY <1>6, <2>1
  <2>3. ~(k < j)
    <3> SUFFICES ASSUME k < j PROVE FALSE
      OBVIOUS
    <3>1. k # m /\ k + 1 \in 1..m
      BY <1>1, <1>5
    <3>2. new[k].end = new[k + 1].start
      BY <1>1, <3>1
    <3>3. k + 1 = j \/ k + 1 < j
      BY <1>5
    <3>4. new[k + 1].start <= new[j].start
      <4>1. CASE k + 1 = j
        BY <1>1, <1>5, <4>1
      <4>2. CASE k + 1 < j
        <5>1. new[k + 1].start < new[j].start /\ new[k + 1].start \in 1..n /\ new[j].start \in 1..n
          BY <1>1, <1>5, <3>1, <4>2
        <5> QED
          BY <5>1
      <4> QED
        BY <3>3, <4>1, <4>2
    <3>5. new[j].start \in 1..n /\ new[k + 1].start \in 1..n
      BY <1>1, <1>5, <3>1
    <3> QED
      BY <1>5, <2>1, <3>2, <3>4, <3>5
  <2> QED
    BY <1>5, <2>2, <2>3
<1> QED
  BY <1>5, <1>7, <1>8 DEF m

(* What TreeIsFaithful says of a tree, the number of headings and of lines. *)
Faithful(tree, count, n) ==
  LET first == {s.start : s \in tree.sections}
  IN /\ ~tree.dangling
     /\ Cardinality(tree.sections) = count
     /\ first # {} =>
          \A i \in Min(first)..n : Cardinality({s \in tree.sections : i \in s.start..s.end - 1}) = 1
     /\ \A s \in tree.sections :
          /\ Find(tree, s.path) = {s}
          /\ Find(tree, Front(s.path)) = Enclosing(tree, s)
          /\ Last(s.path) = Cardinality({p \in tree.sections :
                              Enclosing(tree, p) = Enclosing(tree, s) /\ p.start <= s.start})

\* Each node has a path of its own, and a section's parent encloses it.
Nested(tree) ==
  /\ tree.root.path = <<>> /\ Find(tree, <<>>) = {tree.root}
  /\ \A s \in tree.sections : /\ s.path \in Seq(Nat) /\ s.path # <<>>
                               /\ Find(tree, s.path) = {s}
                               /\ Find(tree, Front(s.path)) = Enclosing(tree, s)
                               /\ Enclosing(tree, s) # {}

\* What is left of a path without its last number.
LEMMA FrontIs ==
  ASSUME NEW q \in Seq(Nat), q # <<>>
  PROVE  /\ Front(q) \in Seq(Nat) /\ Len(q) = Len(Front(q)) + 1 /\ Len(q) \in Nat /\ Len(Front(q)) \in Nat
         /\ \A i \in 1..Len(Front(q)) : Front(q)[i] = q[i]
<1>1. Len(q) \in Nat /\ Len(q) # 0 /\ \A i \in 1..Len(q) : q[i] \in Nat
  OBVIOUS
<1>2. Front(q) = [i \in 1..(Len(q) - 1) |-> q[i]] /\ Len(q) - 1 \in Nat
  BY <1>1 DEF Front
<1>3. \A i \in 1..(Len(q) - 1) : i \in 1..Len(q)
  BY <1>1
<1> QED
  BY <1>1, <1>2, <1>3

LEMMA PlacedIsFaithful ==
  ASSUME NEW n \in Nat, NEW new, IsPrepared(new, n), NEW tree, NEW P, Placed(new, Len(new), tree.sections, P),
         tree.root.path = <<>>, ~tree.dangling
  PROVE  Faithful(tree, Len(new), n) /\ Nested(tree)
<1> DEFINE m == Len(new)
           sections == tree.sections
           sec(j) == Sec(new, j, P[j])
           first == {s.start : s \in sections}
           before(s) == {p \in sections : p.start < s.start /\ p.depth < s.depth}
<1>1. /\ IsFiniteSet(sections) /\ Cardinality(sections) = m
      /\ sections = {sec(j) : j \in 1..m}
      /\ \A i, j \in 1..m : sec(i) = sec(j) => i = j
  BY SectionsAre
<1>2. \A j : /\ sec(j).start = new[j].start /\ sec(j).end = new[j].end
             /\ sec(j).depth = new[j].depth /\ sec(j).path = P[j]
  BY DEF Sec
<1>3. /\ m \in Nat /\ \A k \in 1..m : new[k].start \in 1..n /\ new[k].depth \in Nat
      /\ \A j, k \in 1..m : j < k => new[j].start < new[k].start
  BY DEF IsPrepared
<1>4. /\ P[0] = <<>> /\ \A i, j \in 0..m : P[i] = P[j] => i = j
      /\ \A j \in 1..m : Front(P[j]) = P[Above(new, j)]
  BY DEF Placed
<1> HIDE DEF m, sections, sec
<1>5. \A s \in sections : \E j \in 1..m : s = sec(j)
  BY <1>1
<1>6. \A j \in 1..m : sec(j) \in sections
  BY <1>1
<1>7. ASSUME first # {}, NEW i \in Min(first)..n
      PROVE  Cardinality({s \in sections : i \in s.start..s.end - 1}) = 1
  <2>1. first \subseteq 1..n
    BY <1>2, <1>3, <1>5
  <2>2. Min(first) \in first
    <3>1. PICK x \in first : IsFirst(x, first)
      <4>1. first \subseteq Nat
        BY <2>1
      <4> HIDE DEF first
      <4> QED
        BY <1>7, <4>1, FirstExists
    <3>2. \E z \in first : \A y \in first : z <= y
      BY <3>1 DEF IsFirst
    <3> HIDE DEF first
    <3> QED
      BY <3>2 DEF Min
  <2>3. PICK b \in 1..m : Min(first) = new[b].start
    BY <1>2, <1>5, <2>2
  <2>4. new[b].start <= i /\ i \in 1..n
    <3>1. new[b].start \in 1..n /\ i \in new[b].start..n
      BY <1>3, <1>7, <2>3
    <3> QED
      BY <3>1
  <2>5. PICK j \in 1..m : \A k \in 1..m : i \in new[k].start..(new[k].end - 1) <=> k = j
    <3>1. b \in 1..Len(new) /\ new[b].start <= i /\ i \in 1..n
      BY <2>3, <2>4 DEF m
    <3>2. \E j \in 1..Len(new) : \A k \in 1..Len(new) : i \in new[k].start..(new[k].end - 1) <=> k = j
      BY <3>1, SectionsCut
    <3> QED
      BY <3>2 DEF m
  <2>6. {s \in sections : i \in s.start..s.end - 1} = {sec(j)}
    <3>1. ASSUME NEW s \in sections PROVE i \in s.start..s.end - 1 <=> s = sec(j)
      <4>1. PICK k \in 1..m : s = sec(k)
        BY <1>5
      <4>2. s.start = new[k].start /\ s.end = new[k].end
        BY <1>2, <4>1
      <4>3. i \in s.start..s.end - 1 <=> k = j
        BY <2>5, <4>2
      <4>4. k = j <=> s = sec(j)
        BY <1>1, <4>1
      <4> QED
        BY <4>3, <4>4
    <3> QED
      BY <1>6, <3>1
  <2> QED
    BY <2>6, FS_Singleton
<1>8. ASSUME NEW j \in 1..m PROVE Find(tree, P[j]) = {sec(j)}
  <2>1. P[j] # <<>>
    <3>1. 0 \in 0..m /\ j \in 0..m /\ j # 0
      BY <1>3
    <3> QED
      BY <1>4, <3>1
  <2>2. ASSUME NEW s \in sections PROVE s.path = P[j] <=> s = sec(j)
    <3>1. PICK k \in 1..m : s = sec(k)
      BY <1>5
    <3>2. s.path = P[k] /\ k \in 0..m /\ j \in 0..m
      BY <1>2, <1>3, <3>1
    <3> QED
      BY <1>2, <1>4, <3>1, <3>2
  <2> QED
    BY <1>6, <2>1, <2>2 DEF Find, sections
<1>9. Find(tree, <<>>) = {tree.root}
  <2>1. ASSUME NEW s \in sections PROVE s.path # <<>>
    <3>1. PICK k \in 1..m : s = sec(k)
      BY <1>5
    <3>2. 0 \in 0..m /\ k \in 0..m /\ k # 0
      BY <1>3
    <3> QED
      BY <1>2, <1>4, <3>1, <3>2
  <2> QED
    BY <2>1 DEF Find, sections
<1>10. ASSUME NEW j \in 1..m
       PROVE  Find(tree, Front(P[j])) = IF before(sec(j)) = {} THEN {tree.root}
                                        ELSE {p \in before(sec(j)) : \A q \in before(sec(j)) : q.start <= p.start}
  <2> DEFINE a == Above(new, j)
  <2>1. /\ a \in 0..(j - 1)
        /\ a # 0 => new[a].depth < new[j].depth
        /\ \A p \in 1..(j - 1) : p > a => new[j].depth <= new[p].depth
    BY AboveIs DEF m
  <2>2. Front(P[j]) = P[a]
    BY <1>4
  <2> HIDE DEF a
  <2>3. \A i \in 1..m : new[i].start < new[j].start <=> i < j
    <3>1. ASSUME NEW i \in 1..m PROVE new[i].start < new[j].start <=> i < j
      <4>1. new[i].start \in 1..n /\ new[j].start \in 1..n
        BY <1>3
      <4>2. i < j \/ i = j \/ j < i
        BY <1>3
      <4>3. i < j => new[i].start < new[j].start
        BY <1>3
      <4>4. j < i => new[j].start < new[i].start
        BY <1>3
      <4> QED
        BY <1>3, <4>1, <4>2, <4>3, <4>4
    <3> QED
      BY <3>1
  <2>4. ASSUME NEW i \in 1..m PROVE sec(i) \in before(sec(j)) <=> (i < j /\ new[i].depth < new[j].depth)
    BY <1>2, <1>6, <2>3
  <2>5. ASSUME NEW i \in 1..m, i < j, new[i].depth < new[j].depth PROVE i <= a
    <3>1. i \in 1..(j - 1) /\ new[i].depth \in Nat /\ new[j].depth \in Nat
      BY <1>3, <2>5
    <3> QED
      BY <2>1, <2>5, <3>1
  <2>6. \A s \in before(sec(j)) : \E i \in 1..m : s = sec(i) /\ i < j /\ new[i].depth < new[j].depth
    <3>1. \A s \in before(sec(j)) : s \in sections
      OBVIOUS
    <3> HIDE DEF before
    <3> QED
      BY <1>5, <2>4, <3>1
  <2> HIDE DEF before
  <2>7. CASE a = 0
    <3>1. before(sec(j)) = {}
      <4> SUFFICES ASSUME NEW s \in before(sec(j)) PROVE FALSE
        OBVIOUS
      <4>1. PICK i \in 1..m : i < j /\ new[i].depth < new[j].depth
        BY <2>6
      <4> QED
        BY <2>5, <2>7, <4>1
    <3> QED
      BY <1>4, <1>9, <2>2, <2>7, <3>1
  <2>8. CASE a # 0
    <3>1. a \in 1..m /\ a < j
      BY <1>3, <2>1, <2>8
    <3>2. sec(a) \in before(sec(j))
      BY <2>1, <2>4, <2>8, <3>1
    <3>3. ASSUME NEW p \in before(sec(j)) PROVE (\A q \in before(sec(j)) : q.start <= p.start) <=> p = sec(a)
      <4>1. PICK i \in 1..m : p = sec(i) /\ i < j /\ new[i].depth < new[j].depth
        BY <2>6
      <4>2. i <= a /\ p.start = new[i].start /\ sec(a).start = new[a].start
        BY <1>2, <2>5, <4>1
      <4>3. new[i].start \in 1..n /\ new[a].start \in 1..n
        BY <1>3, <3>1
      <4>4. ASSUME p # sec(a) PROVE ~(sec(a).start <= p.start)
        <5>1. i # a
          BY <4>1, <4>4
        <5>2. i < a
          BY <3>1, <4>2, <5>1
        <5>3. new[i].start < new[a].start
          BY <1>3, <3>1, <5>2
        <5> QED
          BY <4>2, <4>3, <5>3
      <4>5. ASSUME p = sec(a), NEW q \in before(sec(j)) PROVE q.start <= p.start
        <5>1. PICK x \in 1..m : q = sec(x) /\ x < j /\ new[x].depth < new[j].depth
          BY <2>6
        <5>2. x <= a /\ q.start = new[x].start /\ p.start = new[a].start
          BY <1>2, <2>5, <4>5, <5>1
        <5>3. new[x].start \in 1..n /\ (x < a => new[x].start < new[a].start)
          BY <1>3, <3>1
        <5>4. x = a \/ x < a
          BY <3>1, <5>2
        <5> QED
          BY <4>3, <5>2, <5>3, <5>4
      <4> QED
        BY <3>2, <4>4, <4>5
    <3>4. {p \in before(sec(j)) : \A q \in before(sec(j)) : q.start <= p.start} = {sec(a)}
      BY <3>2, <3>3
    <3>5. Find(tree, P[a]) = {sec(a)}
      BY <1>8, <3>1
    <3> QED
      BY <2>2, <3>2, <3>4, <3>5
  <2> QED
    BY <2>7, <2>8
<1>11. ASSUME NEW s \in sections
       PROVE  /\ Find(tree, s.path) = {s}
              /\ Find(tree, Front(s.path)) = Enclosing(tree, s)
  <2>1. PICK j \in 1..m : s = sec(j)
    BY <1>5
  <2>2. s.path = P[j]
    BY <1>2, <2>1
  <2>3. Enclosing(tree, s) = IF before(s) = {} THEN {tree.root}
                             ELSE {p \in before(s) : \A q \in before(s) : q.start <= p.start}
    BY DEF Enclosing, sections
  <2> HIDE DEF before
  <2>4. Find(tree, s.path) = {s}
    BY <1>8, <2>1, <2>2
  <2> QED
    BY <1>10, <2>1, <2>2, <2>3, <2>4
<1>12. \A j \in 0..m : P[j] \in Seq(Nat)
  BY DEF Placed, m
<1>13. ASSUME NEW s \in sections PROVE s.path \in Seq(Nat) /\ s.path # <<>>
  <2>1. PICK j \in 1..m : s = sec(j)
    BY <1>5
  <2>2. 0 \in 0..m /\ j \in 0..m /\ j # 0
    BY <1>3
  <2> QED
    BY <1>2, <1>4, <1>12, <2>1, <2>2
<1>14. ASSUME NEW s \in sections PROVE \E x : Enclosing(tree, s) = {x} /\ x.path = Front(s.path)
  <2>1. PICK j \in 1..m : s = sec(j)
    BY <1>5
  <2>2. Front(s.path) = P[Above(new, j)] /\ Enclosing(tree, s) = Find(tree, Front(s.path))
    BY <1>2, <1>4, <1>11, <2>1
  <2>3. Above(new, j) \in 0..(j - 1)
    BY AboveIs DEF m
  <2>4. PICK a : a = Above(new, j)
    OBVIOUS
  <2>5. CASE a = 0
    BY <1>4, <1>9, <2>2, <2>4, <2>5
  <2>6. CASE a # 0
    <3>1. a \in 1..m
      BY <1>3, <2>3, <2>4, <2>6
    <3> QED
      BY <1>2, <1>8, <2>2, <2>4, <3>1
  <2> QED
    BY <2>5, <2>6
<1>15. ASSUME NEW s \in sections
       PROVE  Last(s.path) = Cardinality({p \in sections : Enclosing(tree, p) = Enclosing(tree, s) /\ p.start <= s.start})
  <2> DEFINE siblings == {p \in sections : Enclosing(tree, p) = Enclosing(tree, s) /\ p.start <= s.start}
  <2>1. PICK j \in 1..m : s = sec(j)
    BY <1>5
  <2>2. s.path = P[j] /\ s.start = new[j].start
    BY <1>2, <2>1
  <2>3. Last(s.path) = Cardinality(Elder(sections, Front(s.path), s.start))
    BY <2>2 DEF Placed, m, sections
  <2>4. ASSUME NEW p \in sections
        PROVE  Enclosing(tree, p) = Enclosing(tree, s) <=> p \in Children(sections, Front(s.path))
    <3>1. PICK x : Enclosing(tree, p) = {x} /\ x.path = Front(p.path)
      BY <1>14
    <3>2. PICK y : Enclosing(tree, s) = {y} /\ y.path = Front(s.path)
      BY <1>14
    <3>3. Enclosing(tree, p) = Find(tree, Front(p.path)) /\ Enclosing(tree, s) = Find(tree, Front(s.path))
      BY <1>11
    <3>4. Enclosing(tree, p) = Enclosing(tree, s) <=> Front(p.path) = Front(s.path)
      BY <3>1, <3>2, <3>3
    <3>5. PICK q : q = p.path
      OBVIOUS
    <3>6. q \in Seq(Nat) /\ q # <<>>
      BY <1>13, <3>5
    <3>7. Len(q) = Len(Front(q)) + 1
      BY <3>6, FrontIs
    <3>8. Front(p.path) = Front(s.path) => Len(p.path) = Len(Front(s.path)) + 1
      BY <3>5, <3>7
    <3> QED
      BY <3>4, <3>8 DEF Children
  <2>5. Elder(sections, Front(s.path), s.start) = siblings
    <3>1. \A p : p \in Children(sections, Front(s.path)) => p \in sections
      BY DEF Children
    <3> QED
      BY <2>4, <3>1 DEF Elder
  <2> QED
    BY <2>3, <2>5
<1>16. Faithful(tree, m, n)
  <2> HIDE DEF first, before
  <2> QED
    BY <1>1, <1>7, <1>11, <1>15, Zenon DEF Faithful, sections, m, first
<1>17. Nested(tree)
  <2>1. \A s \in sections : Enclosing(tree, s) # {}
    <3>1. ASSUME NEW s \in sections PROVE Enclosing(tree, s) # {}
      BY <1>14
    <3> QED
      BY <3>1
  <2> QED
    BY <1>9, <1>11, <1>13, <2>1, Zenon DEF Nested, sections
<1> QED
  BY <1>16, <1>17 DEF m

\* What is told of paths and their prefixes.
LEMMA PrefixIs ==
  ASSUME NEW q \in Seq(Nat), NEW r \in Seq(Nat)
  PROVE  IsPrefix(q, r) <=> Len(q) <= Len(r) /\ \A i \in 1..Len(q) : q[i] = r[i]
<1> DEFINE m == Len(q)
           a == SubSeq(q, 1, m)
           b == SubSeq(r, 1, m)
<1>1. m \in Nat /\ Len(r) \in Nat
  OBVIOUS
<1>2. IsPrefix(q, r) <=> m <= Len(r) /\ a = b
  BY DEF IsPrefix
<1>3. a = [i \in 1..m |-> q[i]]
  BY <1>1
<1>4. m <= Len(r) => b = [i \in 1..m |-> r[i]]
  BY <1>1
<1> HIDE DEF m, a, b
<1>5. m <= Len(r) => (a = b <=> \A i \in 1..m : q[i] = r[i])
  BY <1>3, <1>4
<1> QED
  BY <1>2, <1>5 DEF m

LEMMA PrefixGrows ==
  ASSUME NEW q \in Seq(Nat), NEW r \in Seq(Nat), r # <<>>
  PROVE  /\ IsPrefix(q, q)
         /\ IsPrefix(q, r) <=> q = r \/ IsPrefix(q, Front(r))
         /\ Len(r) = Len(Front(r)) + 1 /\ Len(Front(r)) \in Nat
<1> DEFINE f == Front(r)
<1>1. f \in Seq(Nat) /\ Len(r) = Len(f) + 1 /\ Len(r) \in Nat /\ Len(f) \in Nat /\ \A i \in 1..Len(f) : f[i] = r[i]
  BY FrontIs
<1> HIDE DEF f
<1>2. /\ IsPrefix(q, r) <=> Len(q) <= Len(r) /\ \A i \in 1..Len(q) : q[i] = r[i]
      /\ IsPrefix(q, f) <=> Len(q) <= Len(f) /\ \A i \in 1..Len(q) : q[i] = f[i]
      /\ IsPrefix(q, q)
  <2>1. Len(q) <= Len(q)
    OBVIOUS
  <2> QED
    BY <1>1, <2>1, PrefixIs
<1>3. Len(q) \in Nat
  OBVIOUS
<1>4. ASSUME IsPrefix(q, r), q # r PROVE IsPrefix(q, f)
  <2>1. Len(q) # Len(r)
    <3> SUFFICES ASSUME Len(q) = Len(r) PROVE FALSE
      OBVIOUS
    <3>1. q = [i \in 1..Len(q) |-> q[i]] /\ r = [i \in 1..Len(r) |-> r[i]]
      OBVIOUS
    <3> QED
      BY <1>2, <1>4, <3>1
  <2>2. Len(q) <= Len(f)
    BY <1>1, <1>2, <1>3, <1>4, <2>1
  <2>3. \A i \in 1..Len(q) : i \in 1..Len(f)
    BY <1>1, <1>3, <2>2
  <2> QED
    BY <1>1, <1>2, <1>4, <2>2, <2>3
<1>5. ASSUME IsPrefix(q, f) PROVE IsPrefix(q, r)
  <2>1. \A i \in 1..Len(q) : i \in 1..Len(f)
    BY <1>1, <1>2, <1>3, <1>5
  <2> QED
    BY <1>1, <1>2, <1>3, <1>5, <2>1
<1>6. q = r => IsPrefix(q, r)
  BY <1>2
<1> QED
  BY <1>1, <1>2, <1>4, <1>5, <1>6 DEF f

\* What AnswerIsFaithful says of a tree: of the answer, and of a view it shows.
Viewed(tree, path, depth, value) ==
  LET nodes == {tree.root} \cup tree.sections
      shown == {v.section : v \in value}
      opened == {v.section : v \in {v \in value : ~v.stub}}
  IN /\ shown \subseteq nodes
     /\ \A v \in value : v.stub <=> Len(v.section.path) = Len(path) + depth + 1
     /\ \A s \in nodes :
          s \in shown <=> s.path = path \/ (s \in tree.sections /\ Enclosing(tree, s) \subseteq opened)

Answered(tree, path, depth, answer) ==
  /\ answer.ok <=> \E n \in {tree.root} \cup tree.sections : n.path = path
  /\ answer.ok => Viewed(tree, path, depth, answer.value)

Navigated(tree, path, depth) ==
  LET found == Find(tree, path)
  IN IF found = {} THEN [ok |-> FALSE, error |-> "path not found"]
     ELSE [ok |-> TRUE, value |-> View(tree, CHOOSE n \in found : TRUE, depth)]

\* What a view made of some sections shows, and what it shows in full.
LEMMA ShownIs ==
  ASSUME NEW near, NEW last, NEW value,
         value = {[section |-> s, stub |-> Len(s.path) = last] : s \in near}
  PROVE  /\ \A s : s \in {v.section : v \in value} <=> s \in near
         /\ \A s : s \in {v.section : v \in {v \in value : ~v.stub}} <=> s \in near /\ Len(s.path) # last
         /\ \A v \in value : v.stub <=> Len(v.section.path) = last
<1> DEFINE V(s) == [section |-> s, stub |-> Len(s.path) = last]
<1>1. \A s : V(s).section = s /\ (V(s).stub <=> Len(s.path) = last)
  OBVIOUS
<1>2. \A v : v \in value <=> \E s \in near : v = V(s)
  OBVIOUS
<1> HIDE DEF V
<1>3. ASSUME NEW v \in value PROVE v.section \in near /\ (v.stub <=> Len(v.section.path) = last)
  <2>1. PICK s \in near : v = V(s)
    BY <1>2, Zenon
  <2>2. v.section = s
    BY <1>1, <2>1, Zenon
  <2>3. V(s).stub <=> Len(s.path) = last
    BY <1>1, Zenon
  <2> QED
    BY <2>1, <2>2, <2>3
<1>4. \A s \in near : V(s) \in value
  BY <1>2, Zenon
<1>5. ASSUME NEW s PROVE s \in {v.section : v \in value} <=> s \in near
  <2>1. ASSUME s \in near PROVE \E v \in value : s = v.section
    BY <1>1, <1>4, <2>1, Zenon
  <2>2. ASSUME NEW v \in value, s = v.section PROVE s \in near
    BY <1>3, <2>2, Zenon
  <2> QED
    BY <2>1, <2>2
<1>6. ASSUME NEW s PROVE s \in {v.section : v \in {v \in value : ~v.stub}} <=> s \in near /\ Len(s.path) # last
  <2>1. ASSUME s \in near, Len(s.path) # last PROVE \E v \in {v \in value : ~v.stub} : s = v.section
    <3>1. V(s) \in value /\ ~V(s).stub /\ s = V(s).section
      BY <1>1, <1>4, <2>1, Zenon
    <3> QED
      BY <3>1, Zenon
  <2>2. ASSUME NEW v \in {v \in value : ~v.stub}, s = v.section PROVE s \in near /\ Len(s.path) # last
    <3>1. v \in value /\ ~v.stub
      OBVIOUS
    <3> QED
      BY <1>3, <2>2, <3>1, Zenon
  <2> QED
    BY <2>1, <2>2
<1> QED
  BY <1>3, <1>5, <1>6

\* A view shows the node and what is enclosed by what it shows in full.
LEMMA ViewIs ==
  ASSUME NEW tree, Nested(tree), NEW depth \in Nat, NEW node \in {tree.root} \cup tree.sections,
         NEW value, value = View(tree, node, depth)
  PROVE  Viewed(tree, node.path, depth, value)
<1> DEFINE nodes == {tree.root} \cup tree.sections
           shown == {v.section : v \in value}
           opened == {v.section : v \in {v \in value : ~v.stub}}
           last == Len(node.path) + depth + 1
           Near(s) == /\ s \in tree.sections \cup {node}
                      /\ IsPrefix(node.path, s.path) /\ Len(s.path) <= last
           near == {s \in tree.sections \cup {node} : IsPrefix(node.path, s.path) /\ Len(s.path) <= last}
<1>1. /\ tree.root.path = <<>> /\ Find(tree, <<>>) = {tree.root}
      /\ \A s \in tree.sections : /\ s.path \in Seq(Nat) /\ s.path # <<>>
                                   /\ Find(tree, s.path) = {s}
                                   /\ Find(tree, Front(s.path)) = Enclosing(tree, s)
                                   /\ Enclosing(tree, s) # {}
  BY DEF Nested
<1>2. \A s \in nodes : s.path \in Seq(Nat) /\ Find(tree, s.path) = {s}
  <2>1. <<>> \in Seq(Nat)
    OBVIOUS
  <2> QED
    BY <1>1, <2>1
<1>3. \A path, s : s \in Find(tree, path) <=> s \in nodes /\ s.path = path
  BY DEF Find
<1>4. value = {[section |-> s, stub |-> Len(s.path) = last] : s \in near}
  BY DEF View
<1>5. \A s : s \in near <=> Near(s)
  OBVIOUS
<1>6. /\ \A s : s \in shown <=> s \in near
      /\ \A s : s \in opened <=> s \in near /\ Len(s.path) # last
      /\ \A v \in value : v.stub <=> Len(v.section.path) = last
  <2> HIDE DEF near, last
  <2> QED
    BY <1>4, ShownIs
<1>7. \A s : s \in shown <=> Near(s)
  BY <1>5, <1>6, Zenon
<1>8. \A s : s \in opened <=> Near(s) /\ Len(s.path) # last
  BY <1>5, <1>6, Zenon
<1>9. \A v \in value : v.stub <=> Len(v.section.path) = last
  BY <1>6
<1> HIDE DEF near, shown, opened
<1>10. shown \subseteq nodes
  BY <1>7
<1> HIDE DEF last
<1>11. node.path \in Seq(Nat) /\ Len(node.path) \in Nat /\ last \in Nat /\ Len(node.path) < last
  <2>1. node.path \in Seq(Nat)
    BY <1>2
  <2> QED
    BY <2>1 DEF last
<1>12. ASSUME NEW s \in nodes, s.path = node.path PROVE s \in shown
  <2>1. s = node
    BY <1>2, <1>12
  <2>2. IsPrefix(node.path, node.path)
    <3>1. PICK q \in Seq(Nat) : q = node.path
      BY <1>11
    <3>2. Len(q) <= Len(q)
      OBVIOUS
    <3>3. IsPrefix(q, q)
      BY <3>2, PrefixIs
    <3> QED
      BY <3>1, <3>3
  <2> QED
    BY <1>7, <1>11, <2>1, <2>2
<1>13. ASSUME NEW s \in tree.sections, s.path # node.path
       PROVE  s \in shown <=> Enclosing(tree, s) \subseteq opened
  <2>1. PICK p : p \in Enclosing(tree, s)
    BY <1>1
  <2>2. p \in nodes /\ p.path = Front(s.path)
    BY <1>1, <1>3, <2>1
  <2>3. Enclosing(tree, s) = {p}
    BY <1>1, <1>2, <2>2
  <2>4. PICK q \in Seq(Nat), r \in Seq(Nat) : q = node.path /\ r = s.path
    BY <1>1, <1>11
  <2>5. /\ IsPrefix(q, r) <=> q = r \/ IsPrefix(q, Front(r))
        /\ Len(r) = Len(Front(r)) + 1 /\ Len(Front(r)) \in Nat
    BY <1>1, <2>4, PrefixGrows
  <2>6. IsPrefix(node.path, s.path) <=> IsPrefix(node.path, p.path)
    BY <1>13, <2>2, <2>4, <2>5
  <2>7. Len(s.path) = Len(p.path) + 1 /\ Len(p.path) \in Nat
    BY <2>2, <2>4, <2>5
  <2>8. Len(s.path) <= last <=> Len(p.path) <= last /\ Len(p.path) # last
    BY <1>11, <2>7
  <2>9. p \in tree.sections \cup {node} \/ ~IsPrefix(node.path, p.path)
    <3> SUFFICES ASSUME p = tree.root, IsPrefix(node.path, p.path) PROVE p = node
      BY <2>2
    <3>1. Len(q) <= 0
      <4>1. IsPrefix(q, <<>>) /\ Len(<<>>) = 0
        BY <1>1, <2>4
      <4> QED
        BY <4>1 DEF IsPrefix
    <3>2. q = <<>>
      BY <3>1
    <3> QED
      BY <1>1, <1>2, <2>4, <3>2
  <2>10. p \in opened <=> s \in shown
    BY <1>7, <1>8, <2>6, <2>8, <2>9
  <2> QED
    BY <2>3, <2>10
<1>14. ASSUME NEW s \in nodes, s \notin tree.sections, s.path # node.path PROVE s \notin shown
  BY <1>7, <1>14
<1>15. \A s \in nodes : s \in shown <=>
         s.path = node.path \/ (s \in tree.sections /\ Enclosing(tree, s) \subseteq opened)
  BY <1>12, <1>13, <1>14
<1> QED
  BY <1>9, <1>10, <1>15, Zenon DEF Viewed, last, shown, opened

LEMMA NavigatedIsAnswered ==
  ASSUME NEW tree, Nested(tree), NEW path, NEW depth \in Nat
  PROVE  Answered(tree, path, depth, Navigated(tree, path, depth))
<1> DEFINE found == Find(tree, path)
           nodes == {tree.root} \cup tree.sections
           answer == Navigated(tree, path, depth)
<1>1. found = {n \in nodes : n.path = path}
  BY DEF Find
<1>2. CASE found = {}
  <2>1. answer.ok = FALSE
    BY <1>2 DEF Navigated
  <2>2. ~\E n \in nodes : n.path = path
    BY <1>1, <1>2
  <2> HIDE DEF answer, nodes
  <2>3. PICK w : w = answer
    OBVIOUS
  <2>4. Answered(tree, path, depth, w)
    BY <2>1, <2>2, <2>3 DEF Answered, nodes
  <2> QED
    BY <2>3, <2>4 DEF answer
<1>3. CASE found # {}
  <2>1. PICK node : node = CHOOSE n \in found : TRUE
    OBVIOUS
  <2>2. node \in found
    BY <1>3, <2>1
  <2>3. node \in nodes /\ node.path = path
    BY <1>1, <2>2
  <2>4. answer = [ok |-> TRUE, value |-> View(tree, node, depth)]
    BY <1>3, <2>1 DEF Navigated
  <2>5. PICK value : value = View(tree, node, depth)
    OBVIOUS
  <2>6. answer.ok /\ answer.value = value
    BY <2>4, <2>5
  <2>7. PICK w : w = answer
    OBVIOUS
  <2> HIDE DEF answer
  <2>8. Answered(tree, path, depth, w)
    <3>1. Viewed(tree, path, depth, value)
      BY <2>3, <2>5, ViewIs
    <3>2. \E n \in {tree.root} \cup tree.sections : n.path = path
      BY <2>3
    <3>3. w.ok /\ w.value = value
      BY <2>6, <2>7
    <3> QED
      BY <3>1, <3>2, <3>3, Zenon DEF Answered
  <2> QED
    BY <2>7, <2>8 DEF answer
<1> QED
  BY <1>2, <1>3

\* QueryTools has these definitions, and the library's, under the name Tree.
LEMMA SameTree ==
  /\ Tree!Lines = Lines
  /\ \A body : Tree!DetectHeadings(body) = DetectHeadings(body) /\ Tree!Prepared(body) = Prepared(body)
  /\ \A new : Tree!Assembled(new) = Assembled(new)
  /\ \A body : Tree!TreeIsFaithful(body) = Faithful(Tree!BuildDocumentTree(body), Len(Tree!DetectHeadings(body)), Len(body))
  /\ \A body, path, depth : Tree!Navigate(body, path, depth) = Navigated(Tree!BuildDocumentTree(body), path, depth)
  /\ \A body, path, depth, answer :
       Tree!AnswerIsFaithful(body, path, depth, answer) = Answered(Tree!BuildDocumentTree(body), path, depth, answer)
<1>1. Tree!Lines = Lines
  BY Zenon DEF Lines, Tree!Lines
<1>2. \A body : Tree!DetectHeadings(body) = DetectHeadings(body)
  BY Zenon DEF DetectHeadings, Tree!DetectHeadings, Ordered, Tree!Ordered, IsAtx, Tree!IsAtx, IsMarker, Tree!IsMarker,
       Cardinality, Tree!Cardinality
<1>3. \A body : Tree!Prepared(body) = Prepared(body)
  <2> SUFFICES ASSUME NEW body PROVE Tree!Prepared(body) = Prepared(body)
    OBVIOUS
  <2> DEFINE P(at) == [k \in DOMAIN at |->
        [depth |-> DepthOf(body[at[k]]), start |-> at[k],
         end |-> IF k = Len(at) THEN Len(body) + 1 ELSE at[k + 1]]]
  <2>1. Prepared(body) = P(DetectHeadings(body))
    BY Zenon DEF Prepared
  <2>2. Tree!Prepared(body) = P(Tree!DetectHeadings(body))
    BY Zenon DEF Tree!Prepared, DepthOf, Tree!DepthOf
  <2> HIDE DEF P
  <2> QED
    BY <1>2, <2>1, <2>2, Zenon
<1>4. \A new : Tree!Assembled(new) = Assembled(new)
  BY Zenon DEF Assembled, Tree!Assembled, AddSection, Tree!AddSection, Popped, Tree!Popped, Max, Tree!Max, Last, Tree!Last,
    Children, Tree!Children, Front, Tree!Front, Cardinality, Tree!Cardinality
<1>5. ASSUME NEW body
      PROVE  Tree!TreeIsFaithful(body) = Faithful(Tree!BuildDocumentTree(body), Len(Tree!DetectHeadings(body)), Len(body))
  BY Zenon DEF Tree!TreeIsFaithful, Faithful, Tree!Find, Find, Cardinality, Tree!Cardinality, Min, Tree!Min, Front, Tree!Front,
    Enclosing, Tree!Enclosing, Last, Tree!Last
<1>6. ASSUME NEW body, NEW path, NEW depth
      PROVE  Tree!Navigate(body, path, depth) = Navigated(Tree!BuildDocumentTree(body), path, depth)
  BY Zenon DEF Tree!Navigate, Navigated, Tree!Find, Find, Tree!View, View, Tree!IsPrefix, IsPrefix
<1>7. ASSUME NEW body, NEW path, NEW depth, NEW answer
      PROVE  Tree!AnswerIsFaithful(body, path, depth, answer) = Answered(Tree!BuildDocumentTree(body), path, depth, answer)
  BY Zenon DEF Tree!AnswerIsFaithful, Answered, Viewed, Enclosing, Tree!Enclosing
<1> QED
  BY <1>1, <1>2, <1>3, <1>4, <1>5, <1>6, <1>7

\* The tree of every body is the nesting of its headings, and every answer shows it.
LEMMA EveryTreeIsFaithful ==
  ASSUME NEW body \in Seq(Tree!Lines)
  PROVE  /\ Tree!TreeIsFaithful(body)
         /\ \A path : \A depth \in Nat : Tree!AnswerIsFaithful(body, path, depth, Tree!Navigate(body, path, depth))
<1> DEFINE tree == Tree!BuildDocumentTree(body)
           new == Prepared(body)
           n == Len(body)
           m == Len(new)
           t == Assembled(new)[m]
<1>1. n \in Nat /\ IsPrepared(new, n) /\ m = Len(DetectHeadings(body))
  <2>1. body \in Seq(Lines)
    BY SameTree
  <2> QED
    BY <2>1, PreparedIs
<1>2. tree.sections = t.sections /\ tree.dangling = t.dangling /\ tree.root.path = <<>>
  <2> DEFINE p == Tree!Prepared(body)
             b == Tree!Assembled(p)[Len(p)]
  <2>1. b = t
    BY SameTree, Zenon
  <2>2. tree.sections = b.sections /\ tree.dangling = b.dangling /\ tree.root.path = <<>>
    BY DEF Tree!BuildDocumentTree
  <2> HIDE DEF tree, b, t
  <2> QED
    BY <2>1, <2>2
<1> HIDE DEF tree, new, n
<1>3. m \in 0..Len(new)
  <2>1. PICK c : c = Len(new)
    OBVIOUS
  <2>2. c \in Nat
    BY <1>1, <2>1 DEF IsPrepared
  <2> QED
    BY <2>1, <2>2
<1>4. WellBuilt(new, m, t)
  BY <1>1, <1>3, AssembledIsWellBuilt
<1> HIDE DEF t
<1>5. PICK P : Placed(new, m, t.sections, P) /\ ~t.dangling
  BY <1>4 DEF WellBuilt
<1>6. Placed(new, Len(new), tree.sections, P) /\ ~tree.dangling
  BY <1>2, <1>5
<1>7. Faithful(tree, m, n) /\ Nested(tree)
  BY <1>1, <1>2, <1>6, PlacedIsFaithful
<1>8. Faithful(tree, Len(Tree!DetectHeadings(body)), n)
  <2>1. m = Len(Tree!DetectHeadings(body))
    BY <1>1, SameTree
  <2> QED
    BY <1>7, <2>1
<1>9. Tree!TreeIsFaithful(body)
  BY <1>8, SameTree, Zenon DEF tree, n
<1>10. ASSUME NEW path, NEW depth \in Nat PROVE Tree!AnswerIsFaithful(body, path, depth, Tree!Navigate(body, path, depth))
  <2>1. Answered(tree, path, depth, Navigated(tree, path, depth))
    BY <1>7, NavigatedIsAnswered
  <2> QED
    BY <2>1, SameTree, Zenon DEF tree
<1> QED
  BY <1>9, <1>10

-----------------------------------------------------------------------------
(* What every reply tells.                                                  *)

NavigationTools == {"oracle.kb.navigate"}
GraphTools == {"kb.multi_hop", "kb.graph_neighborhood"}
SearchTools == {"rag.search", "oracle.docs.search"}
ListingTools == {"oracle.oic.get_project_contents", "oracle.oic.where_used"}
FindingTools == {"oracle.oic.search"}
TracingTools == {"oracle.oic.where_used"}
FusionTools == {"call on Fusion"}
MockTools == {"call on the mock"}
ActivatingTools == {"oracle.oic.activate"}
TellingTools == GraphTools \cup SearchTools \cup ListingTools \cup FindingTools \cup TracingTools
                  \cup FusionTools \cup MockTools \cup ActivatingTools \cup NavigationTools
OtherTools == {"none", "any tool", "rag.search on qdrant", "kb.global_query", "kb.summarise",
               "oracle.system.info", "oracle.rest.search", "oracle.rest.metadata", "oracle.rest.bulk_metadata",
               "oracle.object.read", "oracle.object.structure", "oracle.party.search", "oracle.party.get",
               "oracle.oic.get", "oracle.oic.get_ess_job", "oracle.oic.preview_data", "http get", "http search",
               "http where_used", "http preview", "navigate an unknown document"}

\* The six properties of a reply, as predicates of the graph and the reply.
Reached(g, answer, maxHops, topK) ==
  LET near == Within(Graphs[g].links, answer.seeds \cap ToSet(Graphs[g].order), maxHops)
      hits == DOMAIN answer.hits
  IN maxHops < U32Max =>
       /\ \A n \in hits : /\ answer.hits[n] \in 0..maxHops
                          /\ n \in near[answer.hits[n]]
                          /\ answer.hits[n] > 0 => n \notin near[answer.hits[n] - 1]
       /\ Cardinality(hits) < topK => hits = near[maxHops]
Kept(s, topK, domains) ==
  /\ Kb!ConsensusFirst(s.dense, s.sparse, s.fused)
  /\ Kb!RerankingKeepsCandidates(s, topK)
  /\ domains # {} => \A i \in ToSet(s.hits) : Chunks[i].domain \in domains
Reads(f, result) == result.value.sent = "GET" /\ Erp!OperationMetadata(f).ok /\ Erp!Catalogue[f].readOnly

NavigationTold(r) ==
  r.tool \in NavigationTools =>
    /\ Tree!TreeIsFaithful(r.args.document)
    /\ Tree!AnswerIsFaithful(r.args.document, r.args.path, r.args.depth, r.result)
GraphTold(g, r) ==
  r.tool \in GraphTools /\ r.result.ok => Reached(g, r.result.value, r.args.maxHops, r.args.topK)
SearchTold(r) ==
  r.tool \in SearchTools /\ r.result.ok => Kept(r.result.value, r.args.topK, r.args.domains)
OicTold(r) ==
  /\ r.tool \in ListingTools /\ r.result.ok => \A n \in r.result.value, c \in Oic!Cases : Fetchable(n, c)
  /\ r.tool \in FindingTools => \A n \in ToSet(r.result.value), c \in Oic!Cases : Fetchable(n, c)
  /\ r.tool \in TracingTools => r.result = Oic!WhereUsed(Oic!Given(r.args.given.name, "own"), r.args.kind)
ReadTold(r) ==
  /\ r.tool \in FusionTools /\ r.args.readOnly /\ r.result.ok => Reads(r.args.function, r.result)
  /\ r.tool \in MockTools /\ r.args.readOnly /\ r.result.ok => Erp!Catalogue[r.args.function].readOnly
  /\ r.tool \in ActivatingTools /\ r.result.ok =>
       ~r.args.readOnly /\ (r.result.value.activated => r.args.accepted)
Told(g, r) == NavigationTold(r) /\ GraphTold(g, r) /\ SearchTold(r) /\ OicTold(r) /\ ReadTold(r)

\* What is told are the properties.
LEMMA ToldIs ==
  /\ NavigationTold(reply) <=> NavigationIsFaithful
  /\ GraphTold(graph, reply) <=> GraphAnswersAreWithinReach
  /\ SearchTold(reply) <=> SearchesKeepTheirHits
  /\ OicTold(reply) <=> RepositoryIsReachable
  /\ ReadTold(reply) <=> ReadOnlyModifiesNothing
<1>1. GraphTold(graph, reply) <=> GraphAnswersAreWithinReach
  BY Zenon DEF GraphTold, GraphAnswersAreWithinReach, GraphTools, Reached, HitsAreWithinReach, G, Nodes
<1>2. SearchTold(reply) <=> SearchesKeepTheirHits
  BY Zenon DEF SearchTold, SearchesKeepTheirHits, SearchTools, Kept
<1>3. OicTold(reply) <=> RepositoryIsReachable
  BY Zenon DEF OicTold, RepositoryIsReachable, ListingTools, FindingTools, TracingTools
<1>4. ReadTold(reply) <=> ReadOnlyModifiesNothing
  BY Zenon DEF ReadTold, ReadOnlyModifiesNothing, FusionTools, MockTools, ActivatingTools, Reads
<1>5. NavigationTold(reply) <=> NavigationIsFaithful
  BY Zenon DEF NavigationTold, NavigationIsFaithful, NavigationTools
<1> QED
  BY <1>1, <1>2, <1>3, <1>4, <1>5

LEMMA OthersTellNothing == \A t \in OtherTools : t \notin TellingTools
  BY Zenon DEF OtherTools, TellingTools, GraphTools, SearchTools, ListingTools, FindingTools, TracingTools,
               FusionTools, MockTools, ActivatingTools, NavigationTools

LEMMA OthersAreTold ==
  ASSUME NEW g, NEW r, r.tool \in OtherTools
  PROVE  Told(g, r)
  BY OthersTellNothing DEF Told, NavigationTold, GraphTold, SearchTold, OicTold, ReadTold, TellingTools

QInv ==
  /\ GraphOK
  /\ reply # NoReply => phase = "serving"
  /\ Told(graph, reply)

LEMMA AnswerTells ==
  ASSUME QInv, NEW t, NEW a, NEW x, Answer(t, a, x), Told(graph, [tool |-> t, args |-> a, result |-> x])
  PROVE  QInv'
<1>1. /\ phase = "serving" /\ UNCHANGED graphVars
      /\ reply' = [tool |-> t, args |-> a, result |-> x]
  BY DEF Answer, Idle
<1>2. graph' = graph /\ phase' = phase
  BY <1>1 DEF graphVars
<1>3. Told(graph, reply)'
  BY <1>1, <1>2
<1>4. GraphOK'
  BY <1>1, Zenon DEF QInv, GraphOK, graphVars, Positions, Split, Nodes, G
<1> QED
  BY <1>1, <1>2, <1>3, <1>4 DEF QInv

OtherAnswer == \E t \in OtherTools : \E a, x : Answer(t, a, x)

LEMMA OtherAnswerTells == QInv /\ OtherAnswer => QInv'
<1> SUFFICES ASSUME QInv, NEW t \in OtherTools, NEW a, NEW x, Answer(t, a, x)
             PROVE  QInv'
  BY DEF OtherAnswer
<1>1. [tool |-> t, args |-> a, result |-> x].tool \in OtherTools
  OBVIOUS
<1>2. Told(graph, [tool |-> t, args |-> a, result |-> x])
  BY <1>1, OthersAreTold
<1> QED
  BY <1>2, AnswerTells

\* The handlers whose replies tell nothing.
LEMMA OtherHandlers ==
  \/ InvalidArguments \/ KbNavigateUnknown \/ QdrantSearches \/ KbGlobalQuery \/ KbSummarise
  \/ SystemInfo \/ RestSearch \/ RestMetadata \/ RestBulkMetadata \/ ObjectRead \/ ObjectStructure
  \/ NoPartyClient \/ PartySearch \/ PartyGet \/ OicGet \/ OicGetEssJob \/ OicPreviewData \/ OicPreviewOverHttp
  => OtherAnswer
<1>1. InvalidArguments => OtherAnswer
  BY Zenon DEF OtherAnswer, OtherTools, InvalidArguments
<1>2. QdrantSearches => OtherAnswer
  BY Zenon DEF OtherAnswer, OtherTools, QdrantSearches
<1>3. KbNavigateUnknown => OtherAnswer
  BY Zenon DEF OtherAnswer, OtherTools, KbNavigateUnknown
<1>4. KbGlobalQuery \/ KbSummarise => OtherAnswer
  BY Zenon DEF OtherAnswer, OtherTools, KbGlobalQuery, KbSummarise
<1>5. SystemInfo => OtherAnswer
  BY Zenon DEF OtherAnswer, OtherTools, SystemInfo
<1>6. RestSearch => OtherAnswer
  BY Zenon DEF OtherAnswer, OtherTools, RestSearch, AnyAnswer
<1>7. RestMetadata => OtherAnswer
  BY Zenon DEF OtherAnswer, OtherTools, RestMetadata
<1>8. RestBulkMetadata => OtherAnswer
  BY Zenon DEF OtherAnswer, OtherTools, RestBulkMetadata
<1>9. ASSUME ObjectRead PROVE OtherAnswer
  <2>1. \E fields \in {<<>>, <<"NAME">>, <<"NO_SUCH">>}, maxRows \in RowCounts, table \in {"GL_LEDGERS", "NO_SUCH"},
           op \in {"=", "LIKE", "<>", "= with LIKE inside"}, pattern \in Patterns :
          LET clause == Erp!Clause("NAME", op, pattern) IN
          Answer("oracle.object.read", [table |-> table, maxRows |-> maxRows, fields |-> fields, clause |-> clause],
                 Erp!ReadTable(table, fields, <<clause>>, maxRows, "client"))
    BY <1>9, Zenon DEF ObjectRead
  <2> QED
    BY <2>1, Zenon DEF OtherAnswer, OtherTools
<1>10. ObjectStructure => OtherAnswer
  BY Zenon DEF OtherAnswer, OtherTools, ObjectStructure
<1>11. NoPartyClient => OtherAnswer
  BY Zenon DEF OtherAnswer, OtherTools, NoPartyClient
<1>12. PartySearch => OtherAnswer
  BY Zenon DEF OtherAnswer, OtherTools, PartySearch
<1>13. PartyGet => OtherAnswer
  BY Zenon DEF OtherAnswer, OtherTools, PartyGet
<1>14. OicGet => OtherAnswer
  BY Zenon DEF OtherAnswer, OtherTools, OicGet
<1>15. OicGetEssJob => OtherAnswer
  BY Zenon DEF OtherAnswer, OtherTools, OicGetEssJob
<1>16. OicPreviewData => OtherAnswer
  BY Zenon DEF OtherAnswer, OtherTools, OicPreviewData
<1>17. OicPreviewOverHttp => OtherAnswer
  BY Zenon DEF OtherAnswer, OtherTools, OicPreviewOverHttp
<1> QED
  BY <1>1, <1>2, <1>3, <1>4, <1>5, <1>6, <1>7, <1>8, <1>9, <1>10, <1>11, <1>12, <1>13, <1>14, <1>15,
     <1>16, <1>17

\* The handlers of the graph and of the knowledge base.
LEMMA GraphHandlersTell ==
  ASSUME QInv, KbMultiHop \/ KbGraphNeighborhood \/ KbNeighborhoodOfNothing
  PROVE  QInv'
<1>1. ASSUME NEW t, t \in GraphTools, NEW maxHops \in Nat, NEW topK \in Nat, NEW seeds,
             NEW h \in Walk(seeds, maxHops, topK),
             Answer(t, [maxHops |-> maxHops, topK |-> topK], Rendered([seeds |-> seeds, hits |-> h]))
      PROVE  QInv'
  <2> DEFINE a == [maxHops |-> maxHops, topK |-> topK]
             x == Rendered([seeds |-> seeds, hits |-> h])
  <2>1. HitsAreWithinReach([seeds |-> seeds, hits |-> h], maxHops, topK)
    BY <1>1, WalkIsWithinReach DEF QInv, GraphOK
  <2>2. Reached(graph, [seeds |-> seeds, hits |-> h], maxHops, topK)
    BY <2>1, Zenon DEF Reached, HitsAreWithinReach, G, Nodes
  <2>3. t \notin NavigationTools /\ t \notin SearchTools /\ t \notin ListingTools /\ t \notin FindingTools /\ t \notin TracingTools
        /\ t \notin FusionTools /\ t \notin MockTools /\ t \notin ActivatingTools
    BY <1>1, Zenon DEF NavigationTools, GraphTools, SearchTools, ListingTools, FindingTools, TracingTools, FusionTools, MockTools,
                       ActivatingTools
  <2>4. Told(graph, [tool |-> t, args |-> a, result |-> x])
    BY <2>2, <2>3 DEF Told, NavigationTold, GraphTold, SearchTold, OicTold, ReadTold, Rendered
  <2> QED
    BY <1>1, <2>4, AnswerTells
<1>2. CASE KbMultiHop
  <2>1. PICK terms \in Queries, maxHops \in Budgets, topK \in Sizes, maxSeeds \in Sizes :
          \E r \in MultiHop(terms, maxHops, topK, maxSeeds) :
            Answer("kb.multi_hop", [maxHops |-> maxHops, topK |-> topK], Rendered(r))
    BY <1>2, Zenon DEF KbMultiHop
  <2>2. PICK t : t = "kb.multi_hop"
    OBVIOUS
  <2>3. PICK r \in MultiHop(terms, maxHops, topK, maxSeeds) :
          Answer(t, [maxHops |-> maxHops, topK |-> topK], Rendered(r))
    BY <2>1, <2>2, Zenon
  <2>4. t \in GraphTools
    BY <2>2, Zenon DEF GraphTools
  <2>5. PICK S, h : h \in Walk(S, maxHops, topK) /\ r = [seeds |-> S, hits |-> h]
    BY DEF MultiHop
  <2> QED
    BY <1>1, <2>3, <2>4, <2>5, QueryAssumption
<1>3. CASE KbGraphNeighborhood
  <2>1. PICK seed \in {G.order[1], Last(G.order), "unknown"}, maxHops \in Budgets, topK \in Sizes :
          \E r \in Neighborhood({seed}, maxHops, topK) :
            Answer("kb.graph_neighborhood", [maxHops |-> maxHops, topK |-> topK], Rendered(r))
    BY <1>3, Zenon DEF KbGraphNeighborhood
  <2>2. PICK t : t = "kb.graph_neighborhood"
    OBVIOUS
  <2>3. PICK r \in Neighborhood({seed}, maxHops, topK) :
          Answer(t, [maxHops |-> maxHops, topK |-> topK], Rendered(r))
    BY <2>1, <2>2, Zenon
  <2>4. t \in GraphTools
    BY <2>2, Zenon DEF GraphTools
  <2>5. PICK h : h \in Walk({seed}, maxHops, topK) /\ r = [seeds |-> {seed}, hits |-> h]
    BY DEF Neighborhood
  <2> QED
    BY <1>1, <2>3, <2>4, <2>5, QueryAssumption
<1>4. CASE KbNeighborhoodOfNothing
  <2>1. PICK t, a, e : t = "kb.graph_neighborhood" /\ Answer(t, a, Error(e))
    BY <1>4, Zenon DEF KbNeighborhoodOfNothing
  <2>2. t \notin NavigationTools /\ t \notin SearchTools /\ t \notin ListingTools /\ t \notin FindingTools /\ t \notin TracingTools
        /\ t \notin FusionTools /\ t \notin MockTools /\ t \notin ActivatingTools
    BY <2>1, Zenon DEF NavigationTools, SearchTools, ListingTools, FindingTools, TracingTools, FusionTools, MockTools, ActivatingTools
  <2>3. Told(graph, [tool |-> t, args |-> a, result |-> Error(e)])
    BY <2>2 DEF Told, NavigationTold, GraphTold, SearchTold, OicTold, ReadTold, Error
  <2> QED
    BY <2>1, <2>3, AnswerTells
<1> QED
  BY <1>2, <1>3, <1>4

LEMMA SearchHandlersTell ==
  ASSUME QInv, RagSearch \/ DocsSearch
  PROVE  QInv'
<1>1. ASSUME NEW t, t \in SearchTools
      PROVE  t \notin NavigationTools /\ t \notin GraphTools /\ t \notin ListingTools /\ t \notin FindingTools /\ t \notin TracingTools
             /\ t \notin FusionTools /\ t \notin MockTools /\ t \notin ActivatingTools
  BY <1>1, Zenon DEF NavigationTools, GraphTools, SearchTools, ListingTools, FindingTools, TracingTools, FusionTools, MockTools,
                     ActivatingTools
<1>2. ASSUME NEW t, t \in SearchTools, NEW topK \in Nat, NEW domains, NEW terms, NEW dim,
             NEW kind \in Rerankers, NEW s \in SearchResults(terms, domains, dim, topK, kind),
             Answer(t, [topK |-> topK, domains |-> domains], Rendered(s))
      PROVE  QInv'
  <2> DEFINE a == [topK |-> topK, domains |-> domains]
  <2>1. Kept(s, topK, domains)
    BY SearchResultsAre DEF Kept
  <2>2. Told(graph, [tool |-> t, args |-> a, result |-> Rendered(s)])
    BY <1>1, <1>2, <2>1 DEF Told, NavigationTold, GraphTold, SearchTold, OicTold, ReadTold, Rendered
  <2> QED
    BY <1>2, <2>2, AnswerTells
<1>3. CASE RagSearch
  <2>1. PICK terms \in Queries, domain \in Kb!Domains, dim \in Dims, topK \in Sizes, kind \in {"none", "mock", "http"} :
          \E s \in SearchResults(terms, {domain}, dim, topK, kind) :
            Answer("rag.search", [topK |-> topK, domains |-> {domain}], Rendered(s))
    BY <1>3, Zenon DEF RagSearch
  <2>2. PICK t : t = "rag.search"
    OBVIOUS
  <2>3. PICK s \in SearchResults(terms, {domain}, dim, topK, kind) :
          Answer(t, [topK |-> topK, domains |-> {domain}], Rendered(s))
    BY <2>1, <2>2, Zenon
  <2>4. t \in SearchTools /\ kind \in Rerankers
    BY <2>2, Zenon DEF SearchTools, Rerankers
  <2> QED
    BY <1>2, <2>3, <2>4, QueryAssumption
<1>4. CASE DocsSearch
  <2>1. CASE \E terms \in Queries, name \in DOMAIN DocsDomains, dim \in Dims, topK \in Sizes :
               \E s \in SearchResults(terms, DocsDomains[name], dim, topK, "mock") :
                 Answer("oracle.docs.search", [topK |-> topK, domains |-> DocsDomains[name]], Rendered(s))
    <3>1. PICK terms \in Queries, name \in DOMAIN DocsDomains, dim \in Dims, topK \in Sizes :
            \E s \in SearchResults(terms, DocsDomains[name], dim, topK, "mock") :
              Answer("oracle.docs.search", [topK |-> topK, domains |-> DocsDomains[name]], Rendered(s))
      BY <2>1, Zenon
    <3>2. PICK t, domains, kind : t = "oracle.docs.search" /\ domains = DocsDomains[name] /\ kind = "mock"
      OBVIOUS
    <3>3. PICK s \in SearchResults(terms, domains, dim, topK, kind) :
            Answer(t, [topK |-> topK, domains |-> domains], Rendered(s))
      BY <3>1, <3>2, Zenon
    <3>4. t \in SearchTools /\ kind \in Rerankers
      BY <3>2, Zenon DEF SearchTools, Rerankers
    <3> QED
      BY <1>2, <3>3, <3>4, QueryAssumption
  <2>2. CASE Answer("oracle.docs.search", [name |-> "other"], Error("unknown domain"))
    <3>1. PICK t, a, e : t = "oracle.docs.search" /\ Answer(t, a, Error(e))
      BY <2>2, Zenon
    <3>2. t \in SearchTools
      BY <3>1, Zenon DEF SearchTools
    <3>3. Told(graph, [tool |-> t, args |-> a, result |-> Error(e)])
      BY <1>1, <3>2 DEF Told, NavigationTold, GraphTold, SearchTold, OicTold, ReadTold, Error
    <3>4. Answer(t, a, Error(e))
      BY <3>1, Zenon
    <3> QED
      BY <3>3, <3>4, AnswerTells
  <2> QED
    BY <1>4, <2>1, <2>2, Zenon DEF DocsSearch
<1> QED
  BY <1>3, <1>4

\* The handlers of the ERP clients.
LEMMA CallHandlersTell ==
  ASSUME QInv, MockCalls \/ FusionCalls
  PROVE  QInv'
<1>1. CASE MockCalls
  <2>1. PICK f \in Erp!Listed \cup {"deleteItem"}, readOnly \in BOOLEAN,
             params \in {Erp!Parameters("null", {}), Erp!Parameters("object", {"ITEM_NUMBER"}),
                        Erp!Parameters("object", {"JOURNAL_ENTRY"}), Erp!Parameters("scalar", {})} :
          Answer("call on the mock", [function |-> f, readOnly |-> readOnly], Erp!MockCall(f, params, readOnly))
    BY <1>1, Zenon DEF MockCalls
  <2>2. PICK t : t = "call on the mock"
    OBVIOUS
  <2>3. t \notin NavigationTools /\ t \notin GraphTools /\ t \notin SearchTools /\ t \notin ListingTools /\ t \notin FindingTools
        /\ t \notin TracingTools /\ t \notin FusionTools /\ t \notin ActivatingTools
    BY <2>2, Zenon DEF NavigationTools, GraphTools, SearchTools, ListingTools, FindingTools, TracingTools, FusionTools, ActivatingTools
  <2>4. PICK x : x = Erp!MockCall(f, params, readOnly)
    OBVIOUS
  <2>5. readOnly /\ x.ok => Erp!Catalogue[f].readOnly
    BY <2>4, MockCallReads
  <2>6. Told(graph, [tool |-> t, args |-> [function |-> f, readOnly |-> readOnly], result |-> x])
    BY <2>3, <2>5 DEF Told, NavigationTold, GraphTold, SearchTold, OicTold, ReadTold
  <2>7. Answer(t, [function |-> f, readOnly |-> readOnly], x)
    BY <2>1, <2>2, <2>4, Zenon
  <2> QED
    BY <2>6, <2>7, AnswerTells
<1>2. CASE FusionCalls
  <2>1. PICK f \in Erp!Listed \cup DOMAIN Erp!Unlisted, readOnly \in BOOLEAN, http \in Replies({200, 500}, {<<>>}) :
          Answer("call on Fusion", [function |-> f, readOnly |-> readOnly], Erp!FusionCall(f, readOnly, http))
    BY <1>2, Zenon DEF FusionCalls
  <2>2. PICK t : t = "call on Fusion"
    OBVIOUS
  <2>3. t \notin NavigationTools /\ t \notin GraphTools /\ t \notin SearchTools /\ t \notin ListingTools /\ t \notin FindingTools
        /\ t \notin TracingTools /\ t \notin MockTools /\ t \notin ActivatingTools
    BY <2>2, Zenon DEF NavigationTools, GraphTools, SearchTools, ListingTools, FindingTools, TracingTools, MockTools, ActivatingTools
  <2>4. PICK x : x = Erp!FusionCall(f, readOnly, http)
    OBVIOUS
  <2>5. readOnly /\ x.ok => Reads(f, x)
    BY <2>4, FusionCallReads DEF Reads
  <2>6. Told(graph, [tool |-> t, args |-> [function |-> f, readOnly |-> readOnly], result |-> x])
    BY <2>3, <2>5 DEF Told, NavigationTold, GraphTold, SearchTold, OicTold, ReadTold
  <2>7. Answer(t, [function |-> f, readOnly |-> readOnly], x)
    BY <2>1, <2>2, <2>4, Zenon
  <2> QED
    BY <2>6, <2>7, AnswerTells
<1> QED
  BY <1>1, <1>2

\* The handler of the navigation: every document has a faithful tree.
LEMMA NavigationsTell ==
  ASSUME QInv, KbNavigate
  PROVE  QInv'
<1>1. PICK t : t = "oracle.kb.navigate"
  OBVIOUS
<1>2. t \notin GraphTools /\ t \notin SearchTools /\ t \notin ListingTools /\ t \notin FindingTools
      /\ t \notin TracingTools /\ t \notin FusionTools /\ t \notin MockTools /\ t \notin ActivatingTools
  BY <1>1, Zenon DEF GraphTools, SearchTools, ListingTools, FindingTools, TracingTools, FusionTools, MockTools,
                     ActivatingTools
<1>3. PICK d \in Documents, path \in {<<>>, <<1>>, <<1, 1>>, <<2>>}, depth \in {0, 1} :
        Answer("oracle.kb.navigate", [document |-> d, path |-> path, depth |-> depth],
               Tree!Navigate(d, path, depth))
  BY Zenon DEF KbNavigate
<1>4. PICK x : x = Tree!Navigate(d, path, depth)
  OBVIOUS
<1>5. Tree!TreeIsFaithful(d) /\ Tree!AnswerIsFaithful(d, path, depth, x)
  <2>1. depth \in Nat
    OBVIOUS
  <2>2. d \in Seq(Tree!Lines)
    BY QueryAssumption
  <2> QED
    BY <1>4, <2>1, <2>2, EveryTreeIsFaithful
<1>6. Told(graph, [tool |-> t, args |-> [document |-> d, path |-> path, depth |-> depth], result |-> x])
  BY <1>2, <1>5 DEF Told, NavigationTold, GraphTold, SearchTold, OicTold, ReadTold
<1>7. Answer(t, [document |-> d, path |-> path, depth |-> depth], x)
  BY <1>1, <1>3, <1>4, Zenon
<1> QED
  BY <1>6, <1>7, AnswerTells

\* The handlers of the OIC clients.
LEMMA RepositoryHandlersTell ==
  ASSUME QInv, OicGetProjectContents \/ OicSearch \/ OicWhereUsed
  PROVE  QInv'
<1>1. CASE OicGetProjectContents
  <2>1. PICK given : Answer("oracle.oic.get_project_contents", given, Oic!GetProjectContents(given))
    BY <1>1, Zenon DEF OicGetProjectContents
  <2>2. PICK t, x : t = "oracle.oic.get_project_contents" /\ x = Oic!GetProjectContents(given)
    OBVIOUS
  <2>3. t \notin NavigationTools /\ t \notin GraphTools /\ t \notin SearchTools /\ t \notin FindingTools /\ t \notin TracingTools
        /\ t \notin FusionTools /\ t \notin MockTools /\ t \notin ActivatingTools
    BY <2>2, Zenon DEF NavigationTools, GraphTools, SearchTools, FindingTools, TracingTools, FusionTools, MockTools, ActivatingTools
  <2>4. x.ok => x.value \subseteq DOMAIN Oic!Objects
    BY <2>2, ListsAreObjects DEF Oic!GetProjectContents, Oic!Ok, Oic!Err
  <2>5. Told(graph, [tool |-> t, args |-> given, result |-> x])
    BY <2>3, <2>4, ObjectsAreFetchable DEF Told, NavigationTold, GraphTold, SearchTold, OicTold, ReadTold
  <2>6. Answer(t, given, x)
    BY <2>1, <2>2, Zenon
  <2> QED
    BY <2>5, <2>6, AnswerTells
<1>2. CASE OicSearch
  <2>1. PICK T, K, M : /\ T = {<<"journal">>, <<"finance", "gl">>} /\ K = {"any", "Integration"} /\ M = {0, 2, 25}
    OBVIOUS
  <2>2. PICK terms \in T, kind \in K, max \in M :
          AnyAnswer("oracle.oic.search", [kind |-> kind, max |-> max], Oic!Search(terms, kind, max))
    BY <1>2, <2>1, Zenon DEF OicSearch
  <2>3. PICK x \in Oic!Search(terms, kind, max) : Answer("oracle.oic.search", [kind |-> kind, max |-> max], x)
    BY <2>2, Zenon DEF AnyAnswer
  <2>4. max \in Nat
    BY <2>1
  <2>5. PICK t : t = "oracle.oic.search"
    OBVIOUS
  <2>6. t \notin NavigationTools /\ t \notin GraphTools /\ t \notin SearchTools /\ t \notin ListingTools /\ t \notin TracingTools
        /\ t \notin FusionTools /\ t \notin MockTools /\ t \notin ActivatingTools
    BY <2>5, Zenon DEF NavigationTools, GraphTools, SearchTools, ListingTools, TracingTools, FusionTools, MockTools, ActivatingTools
  <2>7. ToSet(x.value) \subseteq DOMAIN Oic!Objects
    BY <2>3, <2>4, FoundAreObjects
  <2>8. Told(graph, [tool |-> t, args |-> [kind |-> kind, max |-> max], result |-> x])
    BY <2>6, <2>7, ObjectsAreFetchable DEF Told, NavigationTold, GraphTold, SearchTold, OicTold, ReadTold
  <2>9. Answer(t, [kind |-> kind, max |-> max], x)
    BY <2>3, <2>5, Zenon
  <2> QED
    BY <2>8, <2>9, AnswerTells
<1>3. CASE OicWhereUsed
  <2>1. PICK given \in Givens(DOMAIN Oic!UsedBy), kind \in {"Connection", "Lookup"} :
          Answer("oracle.oic.where_used", [given |-> given, kind |-> kind], Oic!WhereUsed(given, kind))
    BY <1>3, Zenon DEF OicWhereUsed
  <2>2. PICK t, x : t = "oracle.oic.where_used" /\ x = Oic!WhereUsed(given, kind)
    OBVIOUS
  <2>3. t \notin NavigationTools /\ t \notin GraphTools /\ t \notin SearchTools /\ t \notin FindingTools
        /\ t \notin FusionTools /\ t \notin MockTools /\ t \notin ActivatingTools
    BY <2>2, Zenon DEF NavigationTools, GraphTools, SearchTools, FindingTools, FusionTools, MockTools, ActivatingTools
  <2>4. x.value \subseteq DOMAIN Oic!Objects
    BY <2>2, ListsAreObjects DEF Oic!WhereUsed, Oic!Ok
  <2>5. x = Oic!WhereUsed(Oic!Given(given.name, "own"), kind)
    BY <2>2, AnyLettersAreUsed
  <2>6. Told(graph, [tool |-> t, args |-> [given |-> given, kind |-> kind], result |-> x])
    BY <2>3, <2>4, <2>5, ObjectsAreFetchable DEF Told, NavigationTold, GraphTold, SearchTold, OicTold, ReadTold
  <2>7. Answer(t, [given |-> given, kind |-> kind], x)
    BY <2>1, <2>2, Zenon
  <2> QED
    BY <2>6, <2>7, AnswerTells
<1> QED
  BY <1>1, <1>2, <1>3

LEMMA ActivationsTell ==
  ASSUME QInv, OicActivate \/ OicOverHttp
  PROVE  QInv'
<1>1. ASSUME NEW t, t \in ActivatingTools, NEW readOnly \in BOOLEAN, NEW accepted, NEW x,
             x.ok => ~readOnly /\ (x.value.activated => accepted),
             Answer(t, [readOnly |-> readOnly, accepted |-> accepted], x)
      PROVE  QInv'
  <2>1. t \notin NavigationTools /\ t \notin GraphTools /\ t \notin SearchTools /\ t \notin ListingTools /\ t \notin FindingTools
        /\ t \notin TracingTools /\ t \notin FusionTools /\ t \notin MockTools
    BY <1>1, Zenon DEF NavigationTools, ActivatingTools, GraphTools, SearchTools, ListingTools, FindingTools, TracingTools, FusionTools,
                       MockTools
  <2>2. Told(graph, [tool |-> t, args |-> [readOnly |-> readOnly, accepted |-> accepted], result |-> x])
    BY <1>1, <2>1 DEF Told, NavigationTold, GraphTold, SearchTold, OicTold, ReadTold
  <2> QED
    BY <1>1, <2>2, AnswerTells
<1>2. CASE OicActivate
  <2>1. PICK readOnly \in BOOLEAN :
          Answer("oracle.oic.activate", [readOnly |-> readOnly, accepted |-> ~readOnly], Oic!Activate("x", readOnly))
    BY <1>2, Zenon DEF OicActivate
  <2>2. PICK t, x, accepted : t = "oracle.oic.activate" /\ x = Oic!Activate("x", readOnly) /\ accepted = ~readOnly
    OBVIOUS
  <2>3. t \in ActivatingTools
    BY <2>2, Zenon DEF ActivatingTools
  <2>4. x.ok => ~readOnly /\ (x.value.activated => accepted)
    BY <2>2, ActivationIsAccepted
  <2>5. Answer(t, [readOnly |-> readOnly, accepted |-> accepted], x)
    BY <2>1, <2>2, Zenon
  <2> QED
    BY <1>1, <2>3, <2>4, <2>5
<1>3. CASE OicOverHttp
  <2>1. PICK http, readOnly : readOnly \in BOOLEAN /\
          \/ \E active : Answer("http get", http, Oic!HttpArtifact("x", [active |-> active] @@ http))
          \/ \E max : Answer("http search", http, Oic!HttpSearch(max, http))
          \/ Answer("http where_used", http, Oic!HttpWhereUsed(http))
          \/ Answer("oracle.oic.activate",
                    [readOnly |-> readOnly, accepted |-> ~readOnly /\ http.status \in 200..299],
                    Oic!HttpActivate("x", readOnly, http))
    <3>1. PICK Caps : Caps = {0, 1, 25}
      OBVIOUS
    <3>2. \E http \in Replies(OicStatuses, OicBodies), readOnly \in BOOLEAN :
            \/ \E active \in {"yes", "no", "missing"} :
                 Answer("http get", http, Oic!HttpArtifact("x", [active |-> active] @@ http))
            \/ \E max \in Caps : Answer("http search", http, Oic!HttpSearch(max, http))
            \/ Answer("http where_used", http, Oic!HttpWhereUsed(http))
            \/ Answer("oracle.oic.activate",
                      [readOnly |-> readOnly, accepted |-> ~readOnly /\ http.status \in 200..299],
                      Oic!HttpActivate("x", readOnly, http))
      BY <1>3, <3>1, Zenon DEF OicOverHttp
    <3> QED
      BY <3>2, Zenon
  <2>. readOnly \in BOOLEAN
    BY <2>1, Zenon
  <2>2. CASE Answer("oracle.oic.activate",
                    [readOnly |-> readOnly, accepted |-> ~readOnly /\ http.status \in 200..299],
                    Oic!HttpActivate("x", readOnly, http))
    <3>1. PICK t, x, accepted : /\ t = "oracle.oic.activate" /\ x = Oic!HttpActivate("x", readOnly, http)
                                /\ accepted = (~readOnly /\ http.status \in 200..299)
      OBVIOUS
    <3>2. t \in ActivatingTools
      BY <3>1, Zenon DEF ActivatingTools
    <3>3. x.ok => ~readOnly /\ (x.value.activated => accepted)
      BY <3>1, ActivationIsAccepted
    <3>4. Answer(t, [readOnly |-> readOnly, accepted |-> accepted], x)
      BY <2>2, <3>1, Zenon
    <3> QED
      BY <1>1, <3>2, <3>3, <3>4
  <2>3. CASE ~Answer("oracle.oic.activate",
                     [readOnly |-> readOnly, accepted |-> ~readOnly /\ http.status \in 200..299],
                     Oic!HttpActivate("x", readOnly, http))
    <3>1. OtherAnswer
      BY <2>1, <2>3, Zenon DEF OtherAnswer, OtherTools
    <3> QED
      BY <3>1, OtherAnswerTells
  <2> QED
    BY <2>2, <2>3
<1> QED
  BY <1>2, <1>3

-----------------------------------------------------------------------------
(* The theorems.                                                            *)

LEMMA QueryInvariant == QuerySpec => []QInv
<1>1. QueryInit => QInv
  <2> SUFFICES ASSUME QueryInit PROVE QInv
    OBVIOUS
  <2>1. GraphOK /\ reply = NoReply
    BY InitGraphOK DEF QueryInit
  <2>2. reply.tool = "none"
    BY <2>1 DEF NoReply
  <2>3. reply.tool \in OtherTools
    BY <2>2, Zenon DEF OtherTools
  <2> QED
    BY <2>1, <2>3, OthersAreTold DEF QInv
<1>2. QInv /\ [QueryNext]_vars => QInv'
  <2> SUFFICES ASSUME QInv, [QueryNext]_vars PROVE QInv'
    OBVIOUS
  <2>1. CASE Building
    <3>1. reply = NoReply \/ phase = "serving"
      BY DEF QInv
    <3>2. phase # "serving" /\ reply' = reply
      BY <2>1 DEF Building, Detect, Visit, NextPass, PassOver, Finish, FinishEdgeless
    <3>3. GraphOK'
      BY <2>1, DetectGraphOK DEF Building, QInv
    <3>4. reply.tool = "none" /\ reply' = NoReply
      BY <3>1, <3>2 DEF NoReply
    <3>5. reply'.tool \in OtherTools
      BY <3>2, <3>4, Zenon DEF OtherTools
    <3>6. Told(graph', reply')
      BY <3>5, OthersAreTold
    <3> QED
      BY <3>3, <3>4, <3>6 DEF QInv
  <2>2. CASE SendReply
    <3>1. GraphOK'
      BY <2>2, Zenon DEF SendReply, QInv, GraphOK, graphVars, Positions, Split, Nodes, G
    <3>2. reply' = NoReply /\ reply'.tool = "none"
      BY <2>2 DEF SendReply, NoReply
    <3>3. reply'.tool \in OtherTools
      BY <3>2, Zenon DEF OtherTools
    <3>4. Told(graph', reply')
      BY <3>3, OthersAreTold
    <3> QED
      BY <3>1, <3>2, <3>4 DEF QInv
  <2>3. CASE KbMultiHop \/ KbGraphNeighborhood \/ KbNeighborhoodOfNothing
    BY <2>3, GraphHandlersTell
  <2>4. CASE RagSearch \/ DocsSearch
    BY <2>4, SearchHandlersTell
  <2>5. CASE MockCalls \/ FusionCalls
    BY <2>5, CallHandlersTell
  <2>6. CASE OicGetProjectContents \/ OicSearch \/ OicWhereUsed
    BY <2>6, RepositoryHandlersTell
  <2>7. CASE OicActivate \/ OicOverHttp
    BY <2>7, ActivationsTell
  <2>10. CASE KbNavigate
    BY <2>10, NavigationsTell
  <2>8. CASE \/ InvalidArguments \/ KbNavigateUnknown \/ QdrantSearches \/ KbGlobalQuery \/ KbSummarise
             \/ SystemInfo \/ RestSearch \/ RestMetadata \/ RestBulkMetadata \/ ObjectRead \/ ObjectStructure
             \/ NoPartyClient \/ PartySearch \/ PartyGet \/ OicGet \/ OicGetEssJob \/ OicPreviewData
             \/ OicPreviewOverHttp
    BY <2>8, OtherHandlers, OtherAnswerTells
  <2>9. CASE UNCHANGED vars
    BY <2>9, Zenon DEF vars, QInv, GraphOK, Positions, Split, Nodes, G
  <2> QED
    BY <2>1, <2>2, <2>3, <2>4, <2>5, <2>6, <2>7, <2>8, <2>9, <2>10 DEF QueryNext
<1> QED
  BY <1>1, <1>2, PTL DEF QuerySpec

(* When the engine serves, its communities split the nodes, the greatest   *)
(* first, and each node's community id is where its community stands, of   *)
(* whatever graph and however the sizes tie: detect_communities and        *)
(* renumber.                                                               *)
THEOREM CommunitiesArePartition == QuerySpec => []CommunitiesPartition
<1>1. QInv => CommunitiesPartition
  BY DEF QInv, GraphOK, Split, CommunitiesPartition
<1> QED
  BY <1>1, QueryInvariant, PTL

(* What kb.multi_hop and kb.graph_neighborhood answer is within the budget *)
(* of hops, at its true distance, and complete when there is room: bfs_hops *)
(* and the cut to top_k, on whatever graph and for whatever budgets.       *)
THEOREM GraphAnswersStayWithinReach == QuerySpec => []GraphAnswersAreWithinReach
<1>1. QInv => GraphAnswersAreWithinReach
  BY ToldIs DEF QInv, Told
<1> QED
  BY <1>1, QueryInvariant, PTL

(* A search keeps to its domains, puts what both rankings have above what  *)
(* one has at no better a rank, and loses or doubles no hit in fusion and  *)
(* reranking, for whatever chunks, queries and sizes: hybrid and rrf.      *)
THEOREM SearchesKeepHits == QuerySpec => []SearchesKeepTheirHits
<1>1. QInv => SearchesKeepTheirHits
  BY ToldIs DEF QInv, Told
<1> QED
  BY <1>1, QueryInvariant, PTL

(* What oracle.kb.navigate shows is the nesting of the headings, of every  *)
(* document: the builder's pointers stay valid although its vectors grow,  *)
(* the sections cut the body, each is found by its path, its parent is the *)
(* nearest heading before it of a smaller depth, its siblings stand in the *)
(* order of the source, and each answer shows the node at the path with    *)
(* what it encloses down to the depth, or an error when there is none:     *)
(* build_document_tree, assign_paths, find and serialize_node_bounded.     *)
THEOREM NavigationStaysFaithful == QuerySpec => []NavigationIsFaithful
<1>1. QInv => NavigationIsFaithful
  BY ToldIs DEF QInv, Told
<1> QED
  BY <1>1, QueryInvariant, PTL

(* Every name that a project, a search or a where-used list of the OIC     *)
(* repository gives is found by its getter, in whatever letters.           *)
THEOREM RepositoryStaysReachable == QuerySpec => []RepositoryIsReachable
<1>1. QInv => RepositoryIsReachable
  BY ToldIs DEF QInv, Told
<1> QED
  BY <1>1, QueryInvariant, PTL

(* On a read-only server no ERP client sends a modifying operation, and no *)
(* artifact is said to be activated that the service did not accept.       *)
THEOREM ReadOnlyStaysReadOnly == QuerySpec => []ReadOnlyModifiesNothing
<1>1. QInv => ReadOnlyModifiesNothing
  BY ToldIs DEF QInv, Told
<1> QED
  BY <1>1, QueryInvariant, PTL
===============================================================================
