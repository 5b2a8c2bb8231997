---------------------------- MODULE DvStepProofs ----------------------------
(***************************************************************************)
(* The tables of dv-step.py on every network, of any size and with any     *)
(* weights: their routes never go in a circle and never promise less than  *)
(* there is; the script ends within as many rounds as there are nodes, and *)
(* then its tables hold the shortest distances.                            *)
(***************************************************************************)
EXTENDS DvStepProps, FiniteSetTheorems, TLAPS

\* When the script ends, no neighbour offers anything better.
Settled ==
  ~running =>
    \A a \in Nodes : \A n \in Neighbours(a) : \A d \in DOMAIN tables[n] :
      d \in DOMAIN tables[a] /\ tables[a][d].cost <= NewCost(a, n, d)

\* What is no more than any path costs: 0 for a node itself, and otherwise
\* no more than it is from a neighbour plus the link to it.  The distances
\* of the network are the largest such numbers.
IsLowerBound(bound) ==
  /\ \A a \in Nodes : bound[a][a] <= 0
  /\ \A a, d \in Nodes : \A n \in Neighbours(a) : bound[a][d] <= bound[n][d] + graph[a][n]

NeverTooCheap ==
  \A bound \in [Nodes -> [Nodes -> Int]] :
    IsLowerBound(bound) =>
      \A a \in Nodes : \A d \in DOMAIN tables[a] : tables[a][d].cost >= bound[a][d]

IInv == graph \in Graphs /\ TypeOK /\ NextHopIsNearer

-----------------------------------------------------------------------------
(* One round. *)

\* Links join different nodes of the network, and have positive weights.
LEMMA GraphFacts ==
  ASSUME graph \in Graphs
  PROVE  /\ Nodes \subseteq Nat
         /\ \A a \in Nodes : /\ Neighbours(a) \subseteq Nodes \ {a}
                             /\ \A n \in Neighbours(a) : graph[a][n] \in Nat \ {0}
BY GraphAssumption DEF IsGraph, Nodes, Neighbours

\* Every set of numbers that is not empty has a least one.
LEMMA LeastNumber ==
  ASSUME NEW T, T \subseteq Nat, T # {}
  PROVE  \E x \in T : \A y \in T : x <= y
<1> DEFINE R     == StrictSubsetOrdering(Nat)
           Below == {1 .. x : x \in T}
<1>1. Below \subseteq FiniteSubsetsOf(Nat) /\ Below # {}
  <2>1. \A x \in T : 1 .. x \subseteq Nat /\ IsFiniteSet(1 .. x)
    BY FS_Interval
  <2> QED
    BY <2>1 DEF FiniteSubsetsOf
<1>2. PICK b \in Below : \A c \in Below : ~ (<<c, b>> \in R)
  <2>1. IsWellFoundedOn(R, FiniteSubsetsOf(Nat))
    BY FS_StrictSubsetOrderingWellFounded
  <2> HIDE DEF R, Below
  <2> QED
    BY <1>1, <2>1, WFMin
<1>3. PICK x \in T : b = 1 .. x
  BY <1>2
<1>4. ASSUME NEW y \in T, y < x PROVE FALSE
  <2>1. 1 .. y \subseteq 1 .. x /\ x \in 1 .. x /\ x \notin 1 .. y /\ 1 .. x \subseteq Nat
    BY <1>4
  <2>2. <<1 .. y, 1 .. x>> \in R
    BY <2>1 DEF StrictSubsetOrdering
  <2> QED
    BY <1>2, <1>3, <2>2
<1> QED
  BY <1>4

\* What a neighbour knows has a cost for its neighbours.
LEMMA CostType ==
  ASSUME graph \in Graphs, TypeOK, NEW a \in Nodes, NEW n \in Neighbours(a),
         NEW d \in DOMAIN tables[n]
  PROVE  n \in Nodes /\ n # a /\ graph[a][n] \in Nat \ {0} /\ NewCost(a, n, d) \in Nat
         /\ tables[n][d].cost \in Nat
BY GraphFacts DEF TypeOK, NewCost

\* The neighbour that wins is one with a better route.
LEMMA WinnerIsBetter ==
  ASSUME graph \in Graphs, TypeOK, NEW a \in Nodes, NEW d, Better(a, d) # {}
  PROVE  /\ Winner(a, d) \in Better(a, d)
         /\ \A m \in Better(a, d) : NewCost(a, Winner(a, d), d) <= NewCost(a, m, d)
<1> DEFINE B == Better(a, d)
           Costs == {NewCost(a, n, d) : n \in B}
<1>1. \A n \in B : n \in Nat /\ n \in Neighbours(a) /\ NewCost(a, n, d) \in Nat
  BY CostType, GraphFacts DEF Better
<1>2. PICK c \in Costs : \A e \in Costs : c <= e
  <2>1. Costs \subseteq Nat /\ Costs # {}
    BY <1>1
  <2> HIDE DEF Costs
  <2> QED
    BY <2>1, LeastNumber
<1> DEFINE Cheap == {n \in B : NewCost(a, n, d) = c}
<1>3. PICK n \in Cheap : \A m \in Cheap : n <= m
  <2>1. Cheap \subseteq Nat /\ Cheap # {}
    BY <1>1, <1>2
  <2> HIDE DEF Cheap
  <2> QED
    BY <2>1, LeastNumber
<1>4. \A m \in B : \/ NewCost(a, n, d) < NewCost(a, m, d)
                   \/ NewCost(a, n, d) = NewCost(a, m, d) /\ n <= m
  <2> TAKE m \in B
  <2>1. NewCost(a, m, d) \in Nat /\ NewCost(a, n, d) = c /\ c \in Nat /\ c <= NewCost(a, m, d)
    BY <1>1, <1>2, <1>3
  <2>2. CASE NewCost(a, m, d) = c
    BY <2>1, <2>2, <1>3
  <2>3. CASE NewCost(a, m, d) # c
    BY <2>1, <2>3
  <2> QED
    BY <2>2, <2>3
<1>5. n \in B
  BY <1>3
<1> HIDE DEF B
<1>6. \E w \in B : \A m \in B : \/ NewCost(a, w, d) < NewCost(a, m, d)
                                \/ NewCost(a, w, d) = NewCost(a, m, d) /\ w <= m
  BY <1>4, <1>5
<1>7. /\ Winner(a, d) \in B
      /\ \A m \in B : \/ NewCost(a, Winner(a, d), d) < NewCost(a, m, d)
                       \/ /\ NewCost(a, Winner(a, d), d) = NewCost(a, m, d)
                          /\ Winner(a, d) <= m
  BY <1>6 DEF Winner, B
<1> QED
  BY <1>1, <1>7 DEF B

\* A round keeps every route or replaces it by a cheaper one, so that a
\* route over a neighbour costs what the neighbour had before the round.
LEMMA RouteAfterRound ==
  ASSUME IInv, Round, NEW a \in Nodes, NEW d \in DOMAIN tables'[a]
  PROVE  /\ d \in Nodes
         /\ \/ Better(a, d) = {} /\ d \in DOMAIN tables[a] /\ tables'[a][d] = tables[a][d]
            \/ \E n \in Better(a, d) : tables'[a][d] = [cost |-> NewCost(a, n, d), via |-> n]
<1>1. tables'[a] = Updated(a)
  BY DEF Round
<1>2. d \in DOMAIN tables[a] \cup {x \in Nodes : Better(a, x) # {}} /\ DOMAIN tables[a] \subseteq Nodes
  BY <1>1 DEF Updated, IInv, TypeOK
<1>3. CASE Better(a, d) = {}
  BY <1>1, <1>2, <1>3 DEF Updated
<1>4. CASE Better(a, d) # {}
  <2>1. tables'[a][d] = RouteOver(a, Winner(a, d), d)
    BY <1>1, <1>2, <1>4 DEF Updated
  <2>2. Winner(a, d) \in Better(a, d)
    BY <1>4, WinnerIsBetter DEF IInv
  <2> QED
    BY <1>2, <2>1, <2>2 DEF RouteOver
<1> QED
  BY <1>3, <1>4

\* No table loses a destination, and no route gets dearer.
LEMMA CostsOnlyFall ==
  ASSUME IInv, Round, NEW a \in Nodes, NEW d \in DOMAIN tables[a]
  PROVE  d \in DOMAIN tables'[a] /\ tables'[a][d].cost <= tables[a][d].cost
<1>1. d \in DOMAIN tables'[a]
  BY DEF Round, Updated
<1>2. tables[a][d].cost \in Nat
  BY DEF IInv, TypeOK
<1>3. CASE Better(a, d) = {} /\ tables'[a][d] = tables[a][d]
  BY <1>1, <1>2, <1>3
<1>4. ASSUME NEW n \in Better(a, d), tables'[a][d] = [cost |-> NewCost(a, n, d), via |-> n]
      PROVE  tables'[a][d].cost <= tables[a][d].cost
  <2>1. tables[a][d].cost > NewCost(a, n, d) /\ n \in Neighbours(a) /\ d \in DOMAIN tables[n]
    BY DEF Better
  <2>2. NewCost(a, n, d) \in Nat
    BY <2>1, CostType DEF IInv
  <2> QED
    BY <1>2, <1>4, <2>1, <2>2
<1> QED
  BY <1>1, <1>3, <1>4, RouteAfterRound

-----------------------------------------------------------------------------
(* The invariant. *)

\* The first tables hold only links and the nodes themselves.
LEMMA InitInv == Init => IInv
<1> SUFFICES ASSUME Init PROVE IInv
  OBVIOUS
<1>1. graph \in Graphs
  BY DEF Init
<1>2. ASSUME NEW a \in Nodes
      PROVE  /\ a \in DOMAIN tables[a] /\ DOMAIN tables[a] \subseteq Nodes
             /\ \A d \in DOMAIN tables[a] :
                  tables[a][d] \in [cost : Nat, via : Neighbours(a) \cup {a}]
             /\ tables[a][a].cost = 0
             /\ \A d \in DOMAIN tables[a] \ {a} :
                  d \in Neighbours(a) /\ tables[a][d] = [cost |-> graph[a][d], via |-> d]
  <2>1. tables[a] = FirstTable(graph, a)
    BY DEF Init, Nodes
  <2> QED
    BY <1>1, <2>1, GraphFacts DEF FirstTable, Neighbours
<1>3. TypeOK
  BY <1>2 DEF Init, TypeOK
<1>4. ASSUME NEW a \in Nodes, NEW d \in DOMAIN tables[a] \ {a}
      PROVE  LET n == tables[a][d].via IN
             n \in Neighbours(a) /\ d \in DOMAIN tables[n] /\ tables[a][d].cost >= NewCost(a, n, d)
  <2>1. d \in Nodes /\ d \in Neighbours(a) /\ tables[a][d] = [cost |-> graph[a][d], via |-> d]
    BY <1>1, <1>2, GraphFacts
  <2>2. d \in DOMAIN tables[d] /\ NewCost(a, d, d) = graph[a][d] /\ graph[a][d] \in Nat
    BY <1>1, <1>2, <2>1, GraphFacts DEF NewCost
  <2> QED
    BY <2>1, <2>2
<1> QED
  BY <1>1, <1>3, <1>4 DEF IInv, NextHopIsNearer

\* A round keeps all next hops nearer, as costs only fall.
LEMMA RoundInv == IInv /\ [Round]_vars => IInv'
<1>1. ASSUME IInv, Round PROVE IInv'
  <2>1. /\ graph' = graph /\ graph' \in Graphs
        /\ Nodes' = Nodes /\ \A a : Neighbours(a)' = Neighbours(a)
    BY <1>1 DEF IInv, Round, Nodes, Neighbours
  <2>2. TypeOK'
    <3>1. round' \in Nat \ {0} /\ running' \in BOOLEAN
      BY <1>1 DEF IInv, TypeOK, Round, Changed
    <3>2. ASSUME NEW a \in Nodes
          PROVE  a \in DOMAIN tables'[a] /\ DOMAIN tables'[a] \subseteq Nodes
      <4>1. a \in DOMAIN tables[a]
        BY <1>1 DEF IInv, TypeOK
      <4> QED
        BY <1>1, <4>1, CostsOnlyFall, RouteAfterRound
    <3>3. ASSUME NEW a \in Nodes, NEW d \in DOMAIN tables'[a]
          PROVE  tables'[a][d] \in [cost : Nat, via : Neighbours(a) \cup {a}]
      <4>1. CASE d \in DOMAIN tables[a] /\ tables'[a][d] = tables[a][d]
        BY <1>1, <4>1 DEF IInv, TypeOK
      <4>2. ASSUME NEW n \in Better(a, d), tables'[a][d] = [cost |-> NewCost(a, n, d), via |-> n]
            PROVE  tables'[a][d] \in [cost : Nat, via : Neighbours(a) \cup {a}]
        <5>1. n \in Neighbours(a) /\ d \in DOMAIN tables[n]
          BY DEF Better
        <5>2. NewCost(a, n, d) \in Nat
          BY <1>1, <5>1, CostType DEF IInv
        <5> QED
          BY <4>2, <5>1, <5>2
      <4> QED
        BY <1>1, <4>1, <4>2, RouteAfterRound
    <3> QED
      BY <2>1, <3>1, <3>2, <3>3 DEF TypeOK
  <2>3. ASSUME NEW a \in Nodes, NEW d \in DOMAIN tables'[a] \ {a}
        PROVE  /\ tables'[a][d].via \in Neighbours(a)
               /\ d \in DOMAIN tables'[tables'[a][d].via]
               /\ tables'[a][d].cost >= tables'[tables'[a][d].via][d].cost + graph[a][tables'[a][d].via]
    <3> DEFINE n == tables'[a][d].via
    <3>1. n \in Neighbours(a) /\ d \in DOMAIN tables[n] /\ tables'[a][d].cost >= NewCost(a, n, d)
      <4>1. CASE d \in DOMAIN tables[a] /\ tables'[a][d] = tables[a][d]
        BY <1>1, <4>1 DEF IInv, NextHopIsNearer
      <4>2. ASSUME NEW m \in Better(a, d), tables'[a][d] = [cost |-> NewCost(a, m, d), via |-> m]
            PROVE  n \in Neighbours(a) /\ d \in DOMAIN tables[n] /\ tables'[a][d].cost >= NewCost(a, n, d)
        <5>1. n = m /\ m \in Neighbours(a) /\ d \in DOMAIN tables[m]
          BY <4>2 DEF Better
        <5>2. NewCost(a, m, d) \in Nat
          BY <1>1, <5>1, CostType DEF IInv
        <5> QED
          BY <4>2, <5>1, <5>2
      <4> QED
        BY <1>1, <4>1, <4>2, RouteAfterRound
    <3>2. n \in Nodes /\ graph[a][n] \in Nat /\ tables[n][d].cost \in Nat
      BY <1>1, <3>1, CostType DEF IInv
    <3>3. d \in DOMAIN tables'[n] /\ tables'[n][d].cost <= tables[n][d].cost
      BY <1>1, <3>1, <3>2, CostsOnlyFall
    <3>4. tables'[n][d].cost \in Nat /\ tables'[a][d].cost \in Nat
      BY <2>1, <2>2, <3>2, <3>3 DEF TypeOK
    <3> HIDE DEF n
    <3>5. tables'[a][d].cost >= tables'[n][d].cost + graph[a][n]
      BY <3>1, <3>2, <3>3, <3>4 DEF NewCost
    <3> QED
      BY <3>1, <3>3, <3>5 DEF n
  <2>4. NextHopIsNearer'
    BY <2>1, <2>3 DEF NextHopIsNearer, NewCost
  <2> QED
    BY <2>1, <2>2, <2>4 DEF IInv
<1>2. ASSUME IInv, UNCHANGED vars PROVE IInv'
  BY <1>2 DEF vars, IInv, TypeOK, NextHopIsNearer, NewCost, Nodes, Neighbours
<1> QED
  BY <1>1, <1>2

\* The three hold in every state.
LEMMA Invariance == Spec => []IInv
BY InitInv, RoundInv, PTL DEF Spec

-----------------------------------------------------------------------------
(* The theorems. *)

\* The tables have their type (init of the tables and update_table).
THEOREM TypeCorrect == Spec => []TypeOK
<1>1. IInv => TypeOK
  BY DEF IInv
<1> QED
  BY <1>1, Invariance, PTL

\* On no network does a route lead in a circle at the end of any round:
\* every hop brings the destination nearer.
THEOREM RoutesDescend == Spec => []NextHopIsNearer
<1>1. IInv => NextHopIsNearer
  BY DEF IInv
<1> QED
  BY <1>1, Invariance, PTL

\* When the script ends the tables satisfy Bellman's inequality: update_table
\* would change nothing more, anywhere.
THEOREM EndsSettled == Spec => []Settled
<1>1. Init => Settled
  BY DEF Init, Settled
<1>2. IInv /\ Settled /\ [Round]_vars => Settled'
  <2>1. ASSUME IInv, Round, ~running' PROVE Settled'
    <3>1. \A a, d \in Nodes : Better(a, d) = {}
      BY <2>1 DEF Round, Changed
    <3>2. graph' = graph /\ Nodes' = Nodes /\ \A a : Neighbours(a)' = Neighbours(a)
      BY <2>1 DEF Round, Nodes, Neighbours
    <3>3. ASSUME NEW a \in Nodes, NEW d \in DOMAIN tables'[a]
          PROVE  d \in DOMAIN tables[a] /\ tables'[a][d] = tables[a][d]
      BY <2>1, <3>1, <3>3, RouteAfterRound
    <3>4. ASSUME NEW a \in Nodes, NEW n \in Neighbours(a), NEW d \in DOMAIN tables'[n]
          PROVE  d \in DOMAIN tables'[a] /\ tables'[a][d].cost <= tables'[n][d].cost + graph[a][n]
      <4>1. n \in Nodes /\ d \in Nodes
        BY <2>1, GraphFacts, RouteAfterRound DEF IInv
      <4>2. d \in DOMAIN tables[n] /\ tables'[n][d] = tables[n][d]
        BY <3>3, <4>1
      <4>3. n \notin Better(a, d)
        BY <3>1, <4>1
      <4>4. d \in DOMAIN tables[a] /\ ~ (tables[a][d].cost > NewCost(a, n, d))
        BY <4>2, <4>3 DEF Better
      <4>5. tables[a][d].cost \in Nat /\ NewCost(a, n, d) \in Nat
        BY <2>1, <4>2, <4>4, CostType DEF IInv, TypeOK
      <4>6. d \in DOMAIN tables'[a] /\ tables'[a][d] = tables[a][d]
        BY <2>1, <3>3, <4>4, CostsOnlyFall
      <4> QED
        BY <4>2, <4>4, <4>5, <4>6 DEF NewCost
    <3> QED
      BY <3>2, <3>4 DEF Settled, NewCost
  <2>2. ASSUME IInv, Settled, UNCHANGED vars PROVE Settled'
    BY <2>2 DEF vars, Settled, NewCost, Nodes, Neighbours
  <2>3. ASSUME running' PROVE Settled'
    BY <2>3 DEF Settled
  <2> QED
    BY <2>1, <2>2, <2>3
<1> QED
  BY <1>1, <1>2, Invariance, PTL DEF Spec

\* No table ever promises a route cheaper than the network has: a cost is at
\* least every lower bound on the paths.
THEOREM NoRouteIsTooCheap == Spec => []NeverTooCheap
<1>1. Init => NeverTooCheap
  <2> SUFFICES ASSUME Init, NEW bound \in [Nodes -> [Nodes -> Int]], IsLowerBound(bound),
                      NEW a \in Nodes, NEW d \in DOMAIN tables[a]
               PROVE  tables[a][d].cost >= bound[a][d]
    BY DEF NeverTooCheap
  <2>1. graph \in Graphs /\ tables[a] = FirstTable(graph, a)
    BY DEF Init, Nodes
  <2>2. CASE d = a
    BY <2>1, <2>2 DEF FirstTable, IsLowerBound
  <2>3. CASE d # a
    <3>1. d \in Neighbours(a) /\ d \in Nodes /\ tables[a][d].cost = graph[a][d] /\ graph[a][d] \in Nat
      BY <2>1, <2>3, GraphFacts DEF FirstTable, Neighbours
    <3>2. bound[a][d] <= bound[d][d] + graph[a][d] /\ bound[d][d] <= 0
      BY <3>1 DEF IsLowerBound
    <3>3. bound[a][d] \in Int /\ bound[d][d] \in Int
      BY <3>1
    <3> QED
      BY <3>1, <3>2, <3>3
  <2> QED
    BY <2>2, <2>3
<1>2. IInv /\ NeverTooCheap /\ [Round]_vars => NeverTooCheap'
  <2>1. ASSUME IInv, NeverTooCheap, Round PROVE NeverTooCheap'
    <3>1. graph' = graph /\ Nodes' = Nodes /\ \A a : Neighbours(a)' = Neighbours(a)
      BY <2>1 DEF Round, Nodes, Neighbours
    <3>2. ASSUME NEW bound \in [Nodes -> [Nodes -> Int]], IsLowerBound(bound),
                 NEW a \in Nodes, NEW d \in DOMAIN tables'[a]
          PROVE  tables'[a][d].cost >= bound[a][d]
      <4>1. \A n \in Nodes : \A x \in DOMAIN tables[n] : tables[n][x].cost >= bound[n][x]
        BY <2>1, <3>2 DEF NeverTooCheap
      <4>2. CASE d \in DOMAIN tables[a] /\ tables'[a][d] = tables[a][d]
        BY <4>1, <4>2
      <4>3. ASSUME NEW n \in Better(a, d), tables'[a][d] = [cost |-> NewCost(a, n, d), via |-> n]
            PROVE  tables'[a][d].cost >= bound[a][d]
        <5>1. n \in Neighbours(a) /\ d \in DOMAIN tables[n]
          BY DEF Better
        <5>2. n \in Nodes /\ d \in Nodes /\ graph[a][n] \in Nat /\ tables[n][d].cost \in Nat
          BY <2>1, <5>1, CostType DEF IInv, TypeOK
        <5>3. bound[a][d] <= bound[n][d] + graph[a][n] /\ tables[n][d].cost >= bound[n][d]
          BY <3>2, <4>1, <5>1, <5>2 DEF IsLowerBound
        <5>4. bound[a][d] \in Int /\ bound[n][d] \in Int
          BY <5>2
        <5> QED
          BY <4>3, <5>2, <5>3, <5>4 DEF NewCost
      <4> QED
        BY <2>1, <4>2, <4>3, RouteAfterRound
    <3> QED
      BY <3>1, <3>2 DEF NeverTooCheap, IsLowerBound
  <2>2. ASSUME NeverTooCheap, UNCHANGED vars PROVE NeverTooCheap'
    BY <2>2 DEF vars, NeverTooCheap, IsLowerBound, Nodes, Neighbours
  <2> QED
    BY <2>1, <2>2
<1> QED
  BY <1>1, <1>2, Invariance, PTL DEF Spec

-----------------------------------------------------------------------------
(* The number of rounds. *)

\* A node knows itself and its neighbours, at the weight of the link at most.
LinksKnown ==
  \A a \in Nodes :
    /\ a \in DOMAIN tables[a] /\ tables[a][a].cost = 0
    /\ \A n \in Neighbours(a) : n \in DOMAIN tables[a] /\ tables[a][n].cost <= graph[a][n]

\* A neighbour with a better route in round k got it from one that got its
\* own in the round before, and so on down to the destination: these are
\* k + 1 nodes, as none is farther from the destination than the next.
ChainInv ==
  running =>
    \A a, d \in Nodes : \A n \in Better(a, d) :
      \E S \in SUBSET Nodes :
        /\ Cardinality(S) = round + 1 /\ n \in S
        /\ \A m \in S : d \in DOMAIN tables[m] /\ tables[m][d].cost <= tables[n][d].cost

FewInv == FewRounds /\ (running => round = 1 \/ round < Cardinality(Nodes))

\* The network has nodes, finitely many.
LEMMA NodesFinite ==
  ASSUME graph \in Graphs
  PROVE  IsFiniteSet(Nodes) /\ Nodes # {} /\ Cardinality(Nodes) \in Nat \ {0}
<1>1. IsFiniteSet(Nodes) /\ Nodes # {}
  BY GraphAssumption DEF IsGraph, Nodes
<1>2. Cardinality(Nodes) \in Nat /\ Cardinality(Nodes) # 0
  BY <1>1, FS_CardinalityType, FS_EmptySet
<1> QED
  BY <1>1, <1>2

\* The first tables hold the links ...
LEMMA LinksInit == Init => LinksKnown
<1> SUFFICES ASSUME Init PROVE LinksKnown
  OBVIOUS
<1>1. graph \in Graphs
  BY DEF Init
<1>2. ASSUME NEW a \in Nodes
      PROVE  /\ a \in DOMAIN tables[a] /\ tables[a][a].cost = 0
             /\ \A n \in Neighbours(a) : n \in DOMAIN tables[a] /\ tables[a][n].cost <= graph[a][n]
  <2>1. tables[a] = FirstTable(graph, a)
    BY DEF Init, Nodes
  <2>2. \A n \in Neighbours(a) : n # a /\ graph[a][n] \in Nat
    BY <1>1, GraphFacts
  <2> QED
    BY <2>1, <2>2 DEF FirstTable, Neighbours
<1> QED
  BY <1>2 DEF LinksKnown

\* ... and a round loses none, nor makes one dearer.
LEMMA LinksStep ==
  ASSUME IInv, LinksKnown, Round
  PROVE  LinksKnown'
<1>1. graph' = graph /\ Nodes' = Nodes /\ \A a : Neighbours(a)' = Neighbours(a)
  BY DEF Round, Nodes, Neighbours
<1>2. TypeOK'
  BY RoundInv DEF IInv
<1>3. ASSUME NEW a \in Nodes
      PROVE  /\ a \in DOMAIN tables'[a] /\ tables'[a][a].cost = 0
             /\ \A n \in Neighbours(a) : n \in DOMAIN tables'[a] /\ tables'[a][n].cost <= graph[a][n]
  <2>1. a \in DOMAIN tables'[a] /\ tables'[a][a].cost <= 0
    BY CostsOnlyFall DEF LinksKnown
  <2>2. tables'[a][a].cost \in Nat
    BY <1>1, <1>2, <2>1 DEF TypeOK
  <2>3. ASSUME NEW n \in Neighbours(a)
        PROVE  n \in DOMAIN tables'[a] /\ tables'[a][n].cost <= graph[a][n]
    <3>1. n \in DOMAIN tables[a] /\ tables[a][n].cost <= graph[a][n]
      BY DEF LinksKnown
    <3>2. n \in DOMAIN tables'[a] /\ tables'[a][n].cost <= tables[a][n].cost
      BY <3>1, CostsOnlyFall
    <3>3. tables[a][n].cost \in Nat /\ tables'[a][n].cost \in Nat /\ graph[a][n] \in Nat
      BY <1>1, <1>2, <3>1, <3>2, GraphFacts DEF IInv, TypeOK
    <3> QED
      BY <3>1, <3>2, <3>3
  <2> QED
    BY <2>1, <2>2, <2>3
<1> QED
  BY <1>1, <1>3 DEF LinksKnown

\* After a round a node is as near as any neighbour before it and the link.
LEMMA Relaxed ==
  ASSUME IInv, Round, NEW a \in Nodes, NEW n \in Neighbours(a), NEW d \in DOMAIN tables[n]
  PROVE  d \in DOMAIN tables'[a] /\ tables'[a][d].cost <= NewCost(a, n, d)
<1>1. n \in Nodes /\ d \in Nodes /\ NewCost(a, n, d) \in Nat
  BY CostType DEF IInv, TypeOK
<1>2. tables'[a] = Updated(a)
  BY DEF Round
<1>3. CASE n \in Better(a, d)
  <2>1. d \in DOMAIN tables'[a] /\ tables'[a][d] = RouteOver(a, Winner(a, d), d)
    BY <1>1, <1>2, <1>3 DEF Updated
  <2>2. NewCost(a, Winner(a, d), d) <= NewCost(a, n, d)
    BY <1>3, WinnerIsBetter DEF IInv
  <2> QED
    BY <2>1, <2>2 DEF RouteOver
<1>4. CASE n \notin Better(a, d)
  <2>1. d \in DOMAIN tables[a] /\ ~ (tables[a][d].cost > NewCost(a, n, d))
    BY <1>4 DEF Better
  <2>2. tables[a][d].cost \in Nat
    BY <2>1 DEF IInv, TypeOK
  <2>3. d \in DOMAIN tables'[a] /\ tables'[a][d].cost <= tables[a][d].cost
    BY <2>1, CostsOnlyFall
  <2>4. tables'[a][d].cost \in Nat
    <3>1. TypeOK' /\ Nodes' = Nodes
      BY RoundInv DEF IInv, Round, Nodes
    <3> QED
      BY <2>3, <3>1 DEF TypeOK
  <2> QED
    BY <1>1, <2>1, <2>2, <2>3, <2>4
<1> QED
  BY <1>3, <1>4

\* A better route is over a neighbour, and to neither of the two.
LEMMA BetterFacts ==
  ASSUME IInv, LinksKnown, NEW a \in Nodes, NEW d, NEW n \in Better(a, d)
  PROVE  /\ n \in Nodes /\ n \in Neighbours(a) /\ n # a /\ d \in DOMAIN tables[n] /\ d \in Nodes
         /\ n # d /\ a # d
         /\ NewCost(a, n, d) \in Nat /\ tables[n][d].cost \in Nat
         /\ tables[n][d].cost < NewCost(a, n, d)
<1>1. n \in Neighbours(a) /\ d \in DOMAIN tables[n]
  BY DEF Better
<1>2. /\ n \in Nodes /\ n # a /\ graph[a][n] \in Nat \ {0} /\ NewCost(a, n, d) \in Nat
      /\ tables[n][d].cost \in Nat
  BY <1>1, CostType DEF IInv
<1>3. d \in Nodes
  BY <1>1, <1>2 DEF IInv, TypeOK
<1>4. NewCost(a, n, d) = tables[n][d].cost + graph[a][n]
  BY DEF NewCost
<1>5. d \in DOMAIN tables[a] => tables[a][d].cost > NewCost(a, n, d)
  BY DEF Better
<1>6. n # d
  <2> SUFFICES ASSUME n = d PROVE FALSE
    OBVIOUS
  <2>1. tables[n][d].cost = 0 /\ d \in DOMAIN tables[a] /\ tables[a][d].cost <= graph[a][n]
    BY <1>1, <1>2 DEF LinksKnown
  <2>2. tables[a][d].cost \in Nat
    BY <2>1 DEF IInv, TypeOK
  <2> QED
    BY <1>2, <1>4, <1>5, <2>1, <2>2
<1>7. a # d
  <2> SUFFICES ASSUME a = d PROVE FALSE
    OBVIOUS
  <2>1. d \in DOMAIN tables[a] /\ tables[a][d].cost = 0
    BY DEF LinksKnown
  <2> QED
    BY <1>2, <1>5, <2>1
<1> QED
  BY <1>1, <1>2, <1>3, <1>4, <1>6, <1>7

\* The node that is about to take a route is no part of the chain.
LEMMA NotInChain ==
  ASSUME IInv, LinksKnown, NEW a \in Nodes, NEW d, NEW n \in Better(a, d), NEW S,
         \A m \in S : d \in DOMAIN tables[m] /\ tables[m][d].cost <= tables[n][d].cost
  PROVE  a \notin S
<1> SUFFICES ASSUME a \in S PROVE FALSE
  OBVIOUS
<1>1. d \in DOMAIN tables[a] /\ tables[a][d].cost <= tables[n][d].cost
  OBVIOUS
<1>2. tables[a][d].cost > NewCost(a, n, d)
  BY <1>1 DEF Better
<1>3. tables[n][d].cost < NewCost(a, n, d) /\ NewCost(a, n, d) \in Nat /\ tables[n][d].cost \in Nat
  BY BetterFacts
<1>4. tables[a][d].cost \in Nat
  BY <1>1 DEF IInv, TypeOK
<1> QED
  BY <1>1, <1>2, <1>3, <1>4

\* In the first round the chain is the neighbour and the destination.
LEMMA ChainInit == Init => ChainInv
<1> SUFFICES ASSUME Init, NEW a \in Nodes, NEW d \in Nodes, NEW n \in Better(a, d)
             PROVE  \E S \in SUBSET Nodes :
                      /\ Cardinality(S) = round + 1 /\ n \in S
                      /\ \A m \in S : d \in DOMAIN tables[m] /\ tables[m][d].cost <= tables[n][d].cost
  BY DEF ChainInv
<1>1. IInv /\ LinksKnown
  BY InitInv, LinksInit
<1>2. n \in Nodes /\ d \in DOMAIN tables[n] /\ n # d /\ tables[n][d].cost \in Nat
  BY <1>1, BetterFacts
<1>3. Cardinality({n, d}) = round + 1
  <2>1. IsFiniteSet({d}) /\ Cardinality({d}) = 1
    BY FS_Singleton
  <2>2. Cardinality({d} \cup {n}) = Cardinality({d}) + 1
    BY <1>2, <2>1, FS_AddElement
  <2>3. {d} \cup {n} = {n, d} /\ round = 1
    BY DEF Init
  <2> QED
    BY <2>1, <2>2, <2>3
<1>4. d \in DOMAIN tables[d] /\ tables[d][d].cost = 0
  BY <1>1 DEF LinksKnown
<1>5. \A m \in {n, d} : d \in DOMAIN tables[m] /\ tables[m][d].cost <= tables[n][d].cost
  BY <1>2, <1>4
<1> QED
  BY <1>2, <1>3, <1>5

\* A neighbour that still has something better to offer changed its own route
\* in this round; the one it took it from has a chain, and it comes on top.
LEMMA ChainStep ==
  ASSUME IInv, LinksKnown, ChainInv, Round
  PROVE  ChainInv'
<1>1. /\ graph' = graph /\ Nodes' = Nodes /\ \A a : Neighbours(a)' = Neighbours(a)
      /\ running /\ round' = round + 1 /\ round \in Nat
  BY DEF Round, Nodes, Neighbours, IInv, TypeOK
<1>2. ASSUME NEW a \in Nodes, NEW d \in Nodes, NEW n \in Better(a, d)'
      PROVE  \E S \in SUBSET Nodes :
               /\ Cardinality(S) = round' + 1 /\ n \in S
               /\ \A m \in S : d \in DOMAIN tables'[m] /\ tables'[m][d].cost <= tables'[n][d].cost
  <2>1. /\ n \in Neighbours(a) /\ d \in DOMAIN tables'[n]
        /\ d \in DOMAIN tables'[a] => tables'[a][d].cost > tables'[n][d].cost + graph[a][n]
    BY <1>1, <1>2 DEF Better, NewCost
  <2>2. n \in Nodes
    BY <2>1, GraphFacts DEF IInv
  <2>3. TypeOK'
    BY RoundInv DEF IInv
  <2>4. PICK m \in Better(n, d) : tables'[n][d] = [cost |-> NewCost(n, m, d), via |-> m]
    <3>1. CASE d \in DOMAIN tables[n] /\ tables'[n][d] = tables[n][d]
      <4>1. d \in DOMAIN tables'[a] /\ tables'[a][d].cost <= NewCost(a, n, d)
        BY <2>1, <3>1, Relaxed
      <4>2. NewCost(a, n, d) = tables'[n][d].cost + graph[a][n] /\ NewCost(a, n, d) \in Nat
        BY <2>1, <3>1, CostType DEF NewCost, IInv
      <4>3. tables'[a][d].cost \in Nat
        BY <1>1, <2>3, <4>1 DEF TypeOK
      <4> QED
        BY <2>1, <4>1, <4>2, <4>3
    <3> QED
      BY <2>1, <2>2, <3>1, RouteAfterRound
  <2>5. PICK S \in SUBSET Nodes :
          /\ Cardinality(S) = round + 1 /\ m \in S
          /\ \A p \in S : d \in DOMAIN tables[p] /\ tables[p][d].cost <= tables[m][d].cost
    BY <1>1, <2>2, <2>4 DEF ChainInv
  <2>6. n \notin S
    BY <2>2, <2>4, <2>5, NotInChain
  <2>7. Cardinality(S \cup {n}) = round' + 1
    <3>1. IsFiniteSet(S)
      BY <2>5, NodesFinite, FS_Subset DEF IInv
    <3>2. Cardinality(S \cup {n}) = Cardinality(S) + 1
      BY <2>6, <3>1, FS_AddElement
    <3> QED
      BY <1>1, <2>5, <3>2
  <2>8. ASSUME NEW p \in S \cup {n}
        PROVE  d \in DOMAIN tables'[p] /\ tables'[p][d].cost <= tables'[n][d].cost
    <3>1. tables'[n][d].cost \in Nat
      BY <1>1, <2>1, <2>2, <2>3 DEF TypeOK
    <3>2. CASE p = n
      BY <2>1, <3>1, <3>2
    <3>3. CASE p \in S
      <4>1. p \in Nodes /\ d \in DOMAIN tables[p] /\ tables[p][d].cost <= tables[m][d].cost
        BY <2>5, <3>3
      <4>2. d \in DOMAIN tables'[p] /\ tables'[p][d].cost <= tables[p][d].cost
        BY <4>1, CostsOnlyFall
      <4>3. tables[m][d].cost < NewCost(n, m, d) /\ tables[m][d].cost \in Nat
        BY <2>2, <2>4, BetterFacts
      <4>4. tables[p][d].cost \in Nat /\ tables'[p][d].cost \in Nat
        BY <1>1, <2>3, <4>1, <4>2 DEF IInv, TypeOK
      <4>5. tables'[n][d].cost = NewCost(n, m, d)
        BY <2>4
      <4> QED
        BY <3>1, <4>1, <4>2, <4>3, <4>4, <4>5
    <3> QED
      BY <3>2, <3>3
  <2> QED
    BY <2>2, <2>7, <2>8
<1> QED
  BY <1>1, <1>2 DEF ChainInv

\* A change needs a chain, and a node beyond it that learns of it.
LEMMA FewStep ==
  ASSUME IInv, LinksKnown, ChainInv, FewInv, Round
  PROVE  FewInv'
<1>1. /\ Nodes' = Nodes /\ running /\ round' = round + 1 /\ round \in Nat \ {0}
      /\ running' = Changed
  BY DEF Round, Nodes, IInv, TypeOK
<1>2. IsFiniteSet(Nodes) /\ Cardinality(Nodes) \in Nat \ {0}
  BY NodesFinite DEF IInv
<1>3. round = 1 \/ round < Cardinality(Nodes)
  BY <1>1 DEF FewInv
<1>4. CASE Changed
  <2>1. PICK a \in Nodes, d \in Nodes : Better(a, d) # {}
    BY <1>4 DEF Changed
  <2>2. PICK n \in Better(a, d) : TRUE
    BY <2>1
  <2>3. PICK S \in SUBSET Nodes :
          /\ Cardinality(S) = round + 1 /\ n \in S
          /\ \A m \in S : d \in DOMAIN tables[m] /\ tables[m][d].cost <= tables[n][d].cost
    BY <1>1, <2>2 DEF ChainInv
  <2>4. a \notin S
    BY <2>2, <2>3, NotInChain
  <2>5. IsFiniteSet(S) /\ Cardinality(S \cup {a}) = Cardinality(S) + 1
    <3>1. IsFiniteSet(S)
      BY <1>2, <2>3, FS_Subset
    <3> QED
      BY <2>4, <3>1, FS_AddElement
  <2>6. Cardinality(S \cup {a}) <= Cardinality(Nodes)
    BY <1>2, FS_Subset
  <2> QED
    BY <1>1, <1>2, <2>3, <2>5, <2>6 DEF FewInv, FewRounds
<1>5. CASE ~Changed
  BY <1>1, <1>2, <1>3, <1>5 DEF FewInv, FewRounds
<1> QED
  BY <1>4, <1>5

RoundsInv == IInv /\ LinksKnown /\ ChainInv /\ FewInv

\* Together they are inductive.
LEMMA RoundsInvariance == Spec => []RoundsInv
<1>1. Init => RoundsInv
  <2> SUFFICES ASSUME Init PROVE RoundsInv
    OBVIOUS
  <2>1. FewInv
    BY NodesFinite DEF Init, FewInv, FewRounds
  <2> QED
    BY <2>1, InitInv, LinksInit, ChainInit DEF RoundsInv
<1>2. RoundsInv /\ [Round]_vars => RoundsInv'
  <2>1. ASSUME RoundsInv, Round PROVE RoundsInv'
    BY <2>1, RoundInv, LinksStep, ChainStep, FewStep DEF RoundsInv
  <2>2. ASSUME RoundsInv, UNCHANGED vars PROVE RoundsInv'
    <3>1. IInv'
      BY <2>2, RoundInv DEF RoundsInv
    <3>2. LinksKnown' /\ ChainInv' /\ FewInv'
      BY <2>2 DEF RoundsInv, vars, LinksKnown, ChainInv, FewInv, FewRounds, Better, NewCost, Nodes, Neighbours
    <3> QED
      BY <3>1, <3>2 DEF RoundsInv
  <2> QED
    BY <2>1, <2>2
<1> QED
  BY <1>1, <1>2, PTL DEF Spec

\* The script ends, and with no more rounds than the network has nodes: one
\* in which something changes needs a chain of nodes as long as the rounds.
THEOREM EndsInTime == Spec => []FewRounds
<1>1. RoundsInv => FewRounds
  BY DEF RoundsInv, FewInv
<1> QED
  BY <1>1, RoundsInvariance, PTL

-----------------------------------------------------------------------------
(* The walks the distances are computed from. *)

\* Induction up to a bound, for a set of numbers.
LEMMA UpTo ==
  ASSUME NEW N \in Nat, NEW S, 0 \in S, \A k \in 0 .. N - 1 : k \in S => k + 1 \in S
  PROVE  \A k \in 0 .. N : k \in S
<1> DEFINE Bad == {k \in 0 .. N : k \notin S}
<1>1. CASE Bad = {}
  BY <1>1
<1>2. CASE Bad # {}
  <2>1. Bad \subseteq Nat
    OBVIOUS
  <2>2. PICK k \in Bad : \A y \in Bad : k <= y
    <3> HIDE DEF Bad
    <3> QED
      BY <1>2, <2>1, LeastNumber
  <2>3. k \in 0 .. N /\ k \notin S /\ k # 0
    BY <2>2
  <2>4. k - 1 \in 0 .. N - 1 /\ k - 1 \in 0 .. N /\ k - 1 \notin Bad /\ (k - 1) + 1 = k
    BY <2>2, <2>3
  <2>5. k - 1 \in S
    BY <2>4
  <2>6. (k - 1) + 1 \in S
    BY <2>4, <2>5
  <2> QED
    BY <2>3, <2>4, <2>6
<1> QED
  BY <1>1, <1>2

EmptyWalks(g) == {[from |-> a, to |-> a, cost |-> 0] : a \in DOMAIN g}

\* What WalksOf() has for a number of links, from what it has for one less.
WalksFrom(g, f, k) == IF k = 0 THEN EmptyWalks(g) ELSE Longer(g, f[k - 1])

\* The function of the walks exists, up to every number of links ...
LEMMA WalksUpTo ==
  ASSUME NEW g, NEW N \in Nat
  PROVE  \E f : f = [k \in 0 .. N |-> WalksFrom(g, f, k)]
<1> DEFINE Good(n) == \E f : \A k \in 0 .. N : k <= n => f[k] = WalksFrom(g, f, k)
           S == {n \in 0 .. N : Good(n)}
<1>1. Good(0)
  <2> DEFINE f == [k \in 0 .. N |-> EmptyWalks(g)]
  <2>1. \A k \in 0 .. N : k <= 0 => f[k] = WalksFrom(g, f, k)
    BY DEF WalksFrom
  <2> HIDE DEF f
  <2> QED
    BY <2>1
<1>2. ASSUME NEW n \in 0 .. N - 1, Good(n) PROVE Good(n + 1)
  <2>1. PICK f : \A k \in 0 .. N : k <= n => f[k] = WalksFrom(g, f, k)
    BY <1>2
  <2> DEFINE h == [k \in 0 .. N |-> IF k <= n THEN f[k] ELSE WalksFrom(g, f, k)]
  <2>2. ASSUME NEW k \in 0 .. N, k <= n + 1 PROVE h[k] = WalksFrom(g, h, k)
    <3>1. h[k] = WalksFrom(g, f, k)
      BY <2>1
    <3>2. k # 0 => k - 1 \in 0 .. N /\ k - 1 <= n
      BY <2>2
    <3>3. k # 0 => h[k - 1] = f[k - 1]
      BY <3>2
    <3> HIDE DEF h
    <3> QED
      BY <3>1, <3>3 DEF WalksFrom
  <2> HIDE DEF h
  <2> QED
    BY <2>2
<1> HIDE DEF Good
<1>3. 0 \in S /\ \A k \in 0 .. N - 1 : k \in S => k + 1 \in S
  BY <1>1, <1>2
<1>4. N \in S
  <2> HIDE DEF S
  <2> QED
    BY <1>3, UpTo
<1>5. PICK f : \A k \in 0 .. N : k <= N => f[k] = WalksFrom(g, f, k)
  BY <1>4 DEF Good
<1> DEFINE h == [k \in 0 .. N |-> f[k]]
<1>6. ASSUME NEW k \in 0 .. N PROVE f[k] = WalksFrom(g, h, k)
  <2>1. f[k] = WalksFrom(g, f, k)
    BY <1>5
  <2>2. k # 0 => k - 1 \in 0 .. N
    OBVIOUS
  <2>3. k # 0 => h[k - 1] = f[k - 1]
    BY <2>2
  <2> HIDE DEF h
  <2> QED
    BY <2>1, <2>3 DEF WalksFrom
<1>7. h = [k \in 0 .. N |-> WalksFrom(g, h, k)]
  BY <1>6
<1> HIDE DEF h
<1> QED
  BY <1>7

\* ... so that WalksOf() is what its recursive definition says.
LEMMA WalksUnfold ==
  ASSUME NEW g, Cardinality(DOMAIN g) \in Nat
  PROVE  /\ WalksOf(g)[0] = EmptyWalks(g)
         /\ \A k \in 0 .. Cardinality(DOMAIN g) - 1 : WalksOf(g)[k + 1] = Longer(g, WalksOf(g)[k])
<1> DEFINE N == Cardinality(DOMAIN g)
           F(f) == [k \in 0 .. N |-> IF k = 0 THEN {[from |-> a, to |-> a, cost |-> 0] : a \in DOMAIN g}
                                     ELSE Longer(g, f[k - 1])]
<1>1. \A f : F(f) = [k \in 0 .. N |-> WalksFrom(g, f, k)]
  BY DEF WalksFrom, EmptyWalks
<1>2. \E f : f = F(f)
  <2> HIDE DEF F, N
  <2>1. N \in Nat
    BY DEF N
  <2>2. PICK f : f = [k \in 0 .. N |-> WalksFrom(g, f, k)]
    BY <2>1, WalksUpTo
  <2>3. F(f) = [k \in 0 .. N |-> WalksFrom(g, f, k)]
    BY <1>1
  <2> QED
    BY <2>2, <2>3
<1>3. WalksOf(g) = CHOOSE f : f = F(f)
  BY DEF WalksOf
<1> DEFINE W == WalksOf(g)
<1>4. W = F(W)
  <2> HIDE DEF F
  <2> QED
    BY <1>2, <1>3
<1>5. W = [k \in 0 .. N |-> WalksFrom(g, W, k)]
  <2> HIDE DEF F, W
  <2> QED
    BY <1>1, <1>4
<1> HIDE DEF F, W
<1>6. \A k \in 0 .. N : W[k] = WalksFrom(g, W, k)
  BY <1>5
<1>7. N \in Nat
  OBVIOUS
<1> HIDE DEF N
<1>8. W[0] = EmptyWalks(g)
  BY <1>6, <1>7 DEF WalksFrom
<1>9. ASSUME NEW k \in 0 .. N - 1 PROVE W[k + 1] = Longer(g, W[k])
  <2>1. k + 1 \in 0 .. N /\ k + 1 # 0 /\ (k + 1) - 1 = k
    BY <1>7
  <2> QED
    BY <1>6, <2>1 DEF WalksFrom
<1> QED
  BY <1>8, <1>9 DEF N, W

\* Walks have their ends in the network, and a cost.
Walk == [from : Nodes, to : Nodes, cost : Nat]

SameEnds(v, w) == v.from = w.from /\ v.to = w.to

\* Those of at most k links.
Walks(k) == WalksOf(graph)[k]

WithLink(w, n) == [from |-> w.from, to |-> n, cost |-> w.cost + graph[w.to][n]]
Candidates(walks) == walks \cup UNION {{WithLink(w, n) : n \in Neighbours(w.to)} : w \in walks}

\* Between the ends of a walk there is a cheapest one.
LEMMA CheapestExists ==
  ASSUME NEW C, C \subseteq Walk, NEW u \in C
  PROVE  \E w \in Cheapest(C) : SameEnds(w, u) /\ w.cost <= u.cost
<1> DEFINE Same == {v \in C : SameEnds(v, u)}
           Costs == {v.cost : v \in Same}
<1>1. Costs \subseteq Nat /\ Costs # {}
  BY DEF Walk, SameEnds
<1>2. PICK c \in Costs : \A e \in Costs : c <= e
  <2> HIDE DEF Costs
  <2> QED
    BY <1>1, LeastNumber
<1>3. PICK w \in Same : w.cost = c
  BY <1>2
<1>4. \A v \in C : v.from = w.from /\ v.to = w.to => w.cost <= v.cost
  BY <1>2, <1>3 DEF SameEnds
<1>5. w \in Cheapest(C) /\ SameEnds(w, u) /\ w.cost <= u.cost
  BY <1>2, <1>3, <1>4 DEF Cheapest, SameEnds
<1> QED
  BY <1>5

\* Longer() chooses the cheapest of the walks and their extensions.
LEMMA CandidatesType ==
  ASSUME graph \in Graphs, NEW walks, walks \subseteq Walk
  PROVE  /\ Candidates(walks) \subseteq Walk
         /\ Longer(graph, walks) = Cheapest(Candidates(walks))
<1>1. ASSUME NEW w \in walks, NEW n \in Neighbours(w.to) PROVE WithLink(w, n) \in Walk
  <2>1. w \in Walk /\ w.to \in Nodes /\ w.from \in Nodes /\ w.cost \in Nat
    BY DEF Walk
  <2>2. n \in Nodes /\ graph[w.to][n] \in Nat
    BY <2>1, GraphFacts
  <2> QED
    BY <2>1, <2>2 DEF Walk, WithLink
<1>2. Candidates(walks) \subseteq Walk
  BY <1>1 DEF Candidates
<1>3. Longer(graph, walks) = Cheapest(Candidates(walks))
  BY DEF Longer, Candidates, WithLink, Neighbours
<1> QED
  BY <1>2, <1>3

\* A longer walk is one of the walks, or one of them and a link; and no two
\* of them between the same ends differ in cost.
LEMMA LongerOnlyThese ==
  ASSUME graph \in Graphs, NEW walks, walks \subseteq Walk
  PROVE  /\ Longer(graph, walks) \subseteq Walk
         /\ \A w \in Longer(graph, walks) :
              w \in walks \/ \E u \in walks : \E n \in Neighbours(u.to) : w = WithLink(u, n)
         /\ \A v, w \in Longer(graph, walks) : SameEnds(v, w) => v.cost = w.cost
<1> DEFINE C == Candidates(walks)
           L == Longer(graph, walks)
<1>1. C \subseteq Walk /\ L = Cheapest(C)
  BY CandidatesType
<1>2. L \subseteq C
  BY <1>1 DEF Cheapest
<1>3. \A w \in C : w \in walks \/ \E u \in walks : \E n \in Neighbours(u.to) : w = WithLink(u, n)
  BY DEF Candidates
<1>4. ASSUME NEW v \in L, NEW w \in L, SameEnds(v, w) PROVE v.cost = w.cost
  <2>1. v \in C /\ w \in C /\ v.cost \in Nat /\ w.cost \in Nat
    BY <1>1, <1>2 DEF Walk
  <2>2. v.cost <= w.cost /\ w.cost <= v.cost
    <3> HIDE DEF C, L
    <3> QED
      BY <1>1, <1>4, <2>1 DEF Cheapest, SameEnds
  <2> HIDE DEF C, L
  <2> QED
    BY <2>1, <2>2
<1> HIDE DEF C
<1> QED
  BY <1>1, <1>2, <1>3, <1>4

\* Between the same ends there is a longer walk that costs no more.
LEMMA LongerHasThese ==
  ASSUME graph \in Graphs, NEW walks, walks \subseteq Walk, NEW u \in walks
  PROVE  /\ \E w \in Longer(graph, walks) : SameEnds(w, u) /\ w.cost <= u.cost
         /\ \A n \in Neighbours(u.to) :
              \E w \in Longer(graph, walks) :
                w.from = u.from /\ w.to = n /\ w.cost <= u.cost + graph[u.to][n]
<1> DEFINE C == Candidates(walks)
<1>1. C \subseteq Walk /\ Longer(graph, walks) = Cheapest(C)
  BY CandidatesType
<1>2. u \in C
  BY DEF Candidates
<1>3. ASSUME NEW n \in Neighbours(u.to)
      PROVE  \E w \in Cheapest(C) : w.from = u.from /\ w.to = n /\ w.cost <= u.cost + graph[u.to][n]
  <2>1. WithLink(u, n) \in C
    BY DEF Candidates
  <2>2. PICK w \in Cheapest(C) : SameEnds(w, WithLink(u, n)) /\ w.cost <= WithLink(u, n).cost
    <3> HIDE DEF C
    <3> QED
      BY <1>1, <2>1, CheapestExists
  <2> HIDE DEF C
  <2> QED
    BY <2>2 DEF SameEnds, WithLink
<1> HIDE DEF C
<1> QED
  BY <1>1, <1>2, <1>3, CheapestExists

\* Walks() starts with the empty walks and makes them longer link by link.
LEMMA WalksStep ==
  ASSUME graph \in Graphs
  PROVE  /\ Walks(0) = EmptyWalks(graph)
         /\ \A k \in 0 .. Cardinality(Nodes) - 1 : Walks(k + 1) = Longer(graph, Walks(k))
BY WalksUnfold, NodesFinite DEF Nodes, Walks

\* Every number of links has walks of the network, of one cost for two ends.
LEMMA WalksType ==
  ASSUME graph \in Graphs
  PROVE  \A k \in 0 .. Cardinality(Nodes) :
           /\ Walks(k) \subseteq Walk
           /\ \A v, w \in Walks(k) : SameEnds(v, w) => v.cost = w.cost
<1> DEFINE N == Cardinality(Nodes)
           Good(k) == /\ Walks(k) \subseteq Walk
                      /\ \A v, w \in Walks(k) : SameEnds(v, w) => v.cost = w.cost
           S == {k \in 0 .. N : Good(k)}
<1>1. N \in Nat
  BY NodesFinite
<1>2. Good(0)
  <2>1. \A w \in Walks(0) : w \in Walk /\ w.cost = 0
    BY WalksStep DEF EmptyWalks, Walk, Nodes
  <2> QED
    BY <2>1
<1>3. ASSUME NEW k \in 0 .. N - 1, Good(k) PROVE Good(k + 1)
  <2>1. Walks(k + 1) = Longer(graph, Walks(k))
    BY WalksStep
  <2> QED
    BY <1>3, <2>1, LongerOnlyThese
<1> HIDE DEF Good
<1>4. 0 \in S /\ \A k \in 0 .. N - 1 : k \in S => k + 1 \in S
  BY <1>1, <1>2, <1>3
<1>5. \A k \in 0 .. N : k \in S
  <2> HIDE DEF S, N
  <2> QED
    BY <1>1, <1>4, UpTo
<1> QED
  BY <1>5 DEF Good
\* A walk can be had with at most one link more, for no more.
LEMMA WalksKept ==
  ASSUME graph \in Graphs, NEW k \in 0 .. Cardinality(Nodes) - 1, NEW w \in Walks(k)
  PROVE  \E v \in Walks(k + 1) : SameEnds(v, w) /\ v.cost <= w.cost
<1>1. Cardinality(Nodes) \in Nat
  BY NodesFinite
<1>2. Walks(k) \subseteq Walk
  BY <1>1, WalksType
<1> QED
  BY <1>2, WalksStep, LongerHasThese

\* Walks grow at their end; but one can be had with a link before it, too.
LEMMA Prepend ==
  ASSUME graph \in Graphs
  PROVE  \A k \in 0 .. Cardinality(Nodes) - 1 :
           \A a \in Nodes : \A n \in Neighbours(a) : \A w \in Walks(k) :
             w.from = n =>
               \E v \in Walks(k + 1) :
                 v.from = a /\ v.to = w.to /\ v.cost <= graph[a][n] + w.cost
<1> DEFINE M == Cardinality(Nodes) - 1
           Good(k) == \A a \in Nodes : \A n \in Neighbours(a) : \A w \in Walks(k) :
                        w.from = n =>
                          \E v \in Walks(k + 1) :
                            v.from = a /\ v.to = w.to /\ v.cost <= graph[a][n] + w.cost
           S == {k \in 0 .. M : Good(k)}
<1>1. M \in Nat /\ \A k \in 0 .. M : k \in 0 .. Cardinality(Nodes) /\ k + 1 \in 0 .. Cardinality(Nodes)
  BY NodesFinite
<1>2. Good(0)
  <2> SUFFICES ASSUME NEW a \in Nodes, NEW n \in Neighbours(a), NEW w \in Walks(0), w.from = n
               PROVE  \E v \in Walks(0 + 1) :
                        v.from = a /\ v.to = w.to /\ v.cost <= graph[a][n] + w.cost
    OBVIOUS
  <2>1. w.to = n /\ w.cost = 0 /\ graph[a][n] \in Nat
    BY WalksStep, GraphFacts DEF EmptyWalks
  <2> DEFINE u == [from |-> a, to |-> a, cost |-> 0]
  <2>2. u \in Walks(0) /\ u.from = a /\ u.to = a /\ u.cost = 0
    BY WalksStep DEF EmptyWalks, Nodes
  <2> HIDE DEF u
  <2>3. Walks(0) \subseteq Walk /\ Walks(0 + 1) = Longer(graph, Walks(0))
    BY <1>1, WalksType, WalksStep
  <2>4. PICK v \in Longer(graph, Walks(0)) :
          v.from = a /\ v.to = n /\ v.cost <= 0 + graph[a][n]
    BY <2>2, <2>3, LongerHasThese
  <2> QED
    BY <2>1, <2>3, <2>4
<1>3. ASSUME NEW k \in 0 .. M - 1, Good(k) PROVE Good(k + 1)
  <2>1. /\ k \in 0 .. M /\ k + 1 \in 0 .. M
        /\ k \in 0 .. Cardinality(Nodes) - 1 /\ k + 1 \in 0 .. Cardinality(Nodes) - 1
    BY <1>1
  <2>2. /\ Walks(k) \subseteq Walk /\ Walks(k + 1) \subseteq Walk /\ Walks((k + 1) + 1) \subseteq Walk
        /\ Walks(k + 1) = Longer(graph, Walks(k))
        /\ Walks((k + 1) + 1) = Longer(graph, Walks(k + 1))
    BY <1>1, <2>1, WalksType, WalksStep
  <2> SUFFICES ASSUME NEW a \in Nodes, NEW n \in Neighbours(a), NEW w \in Walks(k + 1), w.from = n
               PROVE  \E v \in Walks((k + 1) + 1) :
                        v.from = a /\ v.to = w.to /\ v.cost <= graph[a][n] + w.cost
    OBVIOUS
  <2>3. graph[a][n] \in Nat /\ w.cost \in Nat
    BY <2>2, GraphFacts DEF Walk
  <2>4. CASE w \in Walks(k)
    <3>1. PICK u \in Walks(k + 1) : u.from = a /\ u.to = w.to /\ u.cost <= graph[a][n] + w.cost
      BY <1>3, <2>4
    <3>2. PICK v \in Walks((k + 1) + 1) : SameEnds(v, u) /\ v.cost <= u.cost
      BY <2>1, <3>1, WalksKept
    <3>3. u.cost \in Nat /\ v.cost \in Nat
      BY <2>2 DEF Walk
    <3> HIDE DEF Good
    <3> QED
      BY <2>3, <3>1, <3>2, <3>3 DEF SameEnds
  <2>5. ASSUME NEW x \in Walks(k), NEW m \in Neighbours(x.to), w = WithLink(x, m)
        PROVE  \E v \in Walks((k + 1) + 1) :
                 v.from = a /\ v.to = w.to /\ v.cost <= graph[a][n] + w.cost
    <3>1. x.from = n /\ w.to = m /\ w.cost = x.cost + graph[x.to][m]
      BY <2>5 DEF WithLink
    <3>2. PICK u \in Walks(k + 1) : u.from = a /\ u.to = x.to /\ u.cost <= graph[a][n] + x.cost
      BY <1>3, <3>1
    <3> HIDE DEF Good
    <3>3. PICK v \in Walks((k + 1) + 1) :
            v.from = u.from /\ v.to = m /\ v.cost <= u.cost + graph[u.to][m]
      <4>1. m \in Neighbours(u.to)
        BY <3>2
      <4>2. \E v \in Longer(graph, Walks(k + 1)) :
              v.from = u.from /\ v.to = m /\ v.cost <= u.cost + graph[u.to][m]
        BY <2>2, <4>1, LongerHasThese
      <4> QED
        BY <2>2, <4>2
    <3>4. x.to \in Nodes /\ u.cost \in Nat /\ v.cost \in Nat /\ x.cost \in Nat
      BY <2>2 DEF Walk
    <3>5. graph[x.to][m] \in Nat
      BY <3>4, GraphFacts
    <3>6. v.cost <= graph[a][n] + w.cost
      BY <2>3, <3>1, <3>2, <3>3, <3>4, <3>5
    <3> QED
      BY <3>1, <3>2, <3>3, <3>6
  <2>6. w \in Walks(k) \/ \E x \in Walks(k) : \E m \in Neighbours(x.to) : w = WithLink(x, m)
    BY <2>2, LongerOnlyThese
  <2> QED
    BY <2>4, <2>5, <2>6
<1> HIDE DEF Good
<1>4. 0 \in S /\ \A k \in 0 .. M - 1 : k \in S => k + 1 \in S
  BY <1>1, <1>2, <1>3
<1>5. \A k \in 0 .. M : k \in S
  <2> HIDE DEF S, M
  <2> QED
    BY <1>1, <1>4, UpTo
<1> QED
  BY <1>5 DEF Good

-----------------------------------------------------------------------------
(* No table is worse than the walks of as many links as rounds. *)

Covered(k) ==
  \A a \in Nodes : \A d \in DOMAIN tables[a] :
    \E w \in Walks(k) : w.from = a /\ w.to = d /\ w.cost <= tables[a][d].cost

\* While it runs, every route is as long as a walk of at most round links; in
\* the end, as one of fewer than there are nodes.
WalkInv ==
  /\ running => Covered(round)
  /\ ~running => Covered(Cardinality(Nodes) - 1)

\* One link more does no harm ...
LEMMA CoveredUp ==
  ASSUME graph \in Graphs, TypeOK, NEW k \in 0 .. Cardinality(Nodes) - 1, Covered(k)
  PROVE  Covered(k + 1)
<1> SUFFICES ASSUME NEW a \in Nodes, NEW d \in DOMAIN tables[a]
             PROVE  \E v \in Walks(k + 1) : v.from = a /\ v.to = d /\ v.cost <= tables[a][d].cost
  BY DEF Covered
<1>1. PICK w \in Walks(k) : w.from = a /\ w.to = d /\ w.cost <= tables[a][d].cost
  BY DEF Covered
<1>2. PICK v \in Walks(k + 1) : SameEnds(v, w) /\ v.cost <= w.cost
  BY WalksKept
<1>3. Walks(k) \subseteq Walk /\ Walks(k + 1) \subseteq Walk
  <2>1. k \in 0 .. Cardinality(Nodes) /\ k + 1 \in 0 .. Cardinality(Nodes)
    BY NodesFinite
  <2> QED
    BY <2>1, WalksType
<1>4. v.cost \in Nat /\ w.cost \in Nat /\ tables[a][d].cost \in Nat
  BY <1>3 DEF Walk, TypeOK
<1> QED
  BY <1>1, <1>2, <1>4 DEF SameEnds

\* ... nor do as many more as make one fewer than there are nodes.
LEMMA CoveredFarther ==
  ASSUME graph \in Graphs, TypeOK, NEW k \in 0 .. Cardinality(Nodes) - 1, Covered(k)
  PROVE  Covered(Cardinality(Nodes) - 1)
<1> DEFINE M == Cardinality(Nodes) - 1 - k
           S == {j \in 0 .. M : Covered(k + j)}
<1>1. M \in Nat /\ k + M = Cardinality(Nodes) - 1 /\ k + 0 = k
  BY NodesFinite
<1>2. 0 \in S
  BY <1>1
<1>3. ASSUME NEW j \in 0 .. M - 1, j \in S PROVE j + 1 \in S
  <2>1. k + j \in 0 .. Cardinality(Nodes) - 1 /\ (k + j) + 1 = k + (j + 1) /\ j + 1 \in 0 .. M
    BY <1>1, NodesFinite
  <2>2. Covered((k + j) + 1)
    BY <1>3, <2>1, CoveredUp
  <2> QED
    BY <2>1, <2>2
<1>4. M \in S
  <2> HIDE DEF S, M
  <2> QED
    BY <1>1, <1>2, <1>3, UpTo
<1> QED
  BY <1>1, <1>4

\* The first tables hold walks of one link or none.
LEMMA WalkInit == Init => WalkInv
<1> SUFFICES ASSUME Init, NEW a \in Nodes, NEW d \in DOMAIN tables[a]
             PROVE  \E v \in Walks(1) : v.from = a /\ v.to = d /\ v.cost <= tables[a][d].cost
  BY DEF Init, WalkInv, Covered
<1>1. graph \in Graphs /\ tables[a] = FirstTable(graph, a)
  BY DEF Init, Nodes
<1> DEFINE u == [from |-> a, to |-> a, cost |-> 0]
<1>2. u \in Walks(0) /\ u.from = a /\ u.to = a /\ u.cost = 0
  BY <1>1, WalksStep DEF EmptyWalks, Nodes
<1> HIDE DEF u
<1>3. Walks(0) \subseteq Walk /\ Walks(0 + 1) = Longer(graph, Walks(0)) /\ 0 + 1 = 1
  BY <1>1, NodesFinite, WalksType, WalksStep
<1>4. CASE d = a
  <2>1. PICK v \in Walks(1) : SameEnds(v, u) /\ v.cost <= u.cost
    BY <1>1, <1>2, <1>3, LongerHasThese
  <2>2. tables[a][d].cost = 0
    BY <1>1, <1>4 DEF FirstTable
  <2> QED
    BY <1>2, <1>4, <2>1, <2>2 DEF SameEnds
<1>5. CASE d # a
  <2>1. d \in Neighbours(a) /\ tables[a][d].cost = graph[a][d] /\ graph[a][d] \in Nat
    BY <1>1, <1>5, GraphFacts DEF FirstTable, Neighbours
  <2>2. PICK v \in Walks(1) : v.from = a /\ v.to = d /\ v.cost <= 0 + graph[a][d]
    BY <1>1, <1>2, <1>3, <2>1, LongerHasThese
  <2> QED
    BY <2>1, <2>2
<1> QED
  BY <1>4, <1>5
\* A round that changes something allows one link more; one that does not
\* leaves the tables as they were.
LEMMA WalkStep ==
  ASSUME RoundsInv, WalkInv, Round
  PROVE  WalkInv'
<1> DEFINE N == Cardinality(Nodes)
<1>1. /\ graph' = graph /\ Nodes' = Nodes /\ running /\ round' = round + 1 /\ round \in Nat \ {0}
      /\ running' = Changed /\ N \in Nat \ {0} /\ graph \in Graphs /\ TypeOK /\ IInv
      /\ \A k : Walks(k)' = Walks(k)
  BY NodesFinite DEF Round, Nodes, RoundsInv, IInv, TypeOK, Walks
<1>2. TypeOK' /\ FewInv'
  BY <1>1, RoundInv, FewStep DEF IInv, RoundsInv
<1>3. round = 1 \/ round < N
  BY <1>1 DEF RoundsInv, FewInv
<1>4. CASE Changed
  <2>1. round + 1 < N
    BY <1>1, <1>2, <1>4 DEF FewInv
  <2>2. round \in 0 .. N - 1 /\ round \in 0 .. N /\ round + 1 \in 0 .. N
    BY <1>1, <2>1
  <2>3. Covered(round) /\ Covered(round + 1)
    BY <1>1, <2>2, CoveredUp DEF WalkInv
  <2>4. ASSUME NEW a \in Nodes, NEW d \in DOMAIN tables'[a]
        PROVE  \E v \in Walks(round + 1) : v.from = a /\ v.to = d /\ v.cost <= tables'[a][d].cost
    <3>1. CASE d \in DOMAIN tables[a] /\ tables'[a][d] = tables[a][d]
      BY <2>3, <3>1 DEF Covered
    <3>2. ASSUME NEW n \in Better(a, d), tables'[a][d] = [cost |-> NewCost(a, n, d), via |-> n]
          PROVE  \E v \in Walks(round + 1) : v.from = a /\ v.to = d /\ v.cost <= tables'[a][d].cost
      <4>1. n \in Nodes /\ n \in Neighbours(a) /\ d \in DOMAIN tables[n]
        BY <1>1, BetterFacts DEF RoundsInv
      <4>2. graph[a][n] \in Nat /\ tables[n][d].cost \in Nat
        BY <1>1, <4>1, CostType
      <4>3. PICK w \in Walks(round) : w.from = n /\ w.to = d /\ w.cost <= tables[n][d].cost
        BY <2>3, <4>1 DEF Covered
      <4>4. PICK v \in Walks(round + 1) :
              v.from = a /\ v.to = w.to /\ v.cost <= graph[a][n] + w.cost
        BY <1>1, <2>2, <4>1, <4>3, Prepend
      <4>5. v.cost \in Nat /\ w.cost \in Nat
        <5>1. Walks(round) \subseteq Walk /\ Walks(round + 1) \subseteq Walk
          BY <1>1, <2>2, WalksType
        <5> QED
          BY <5>1 DEF Walk
      <4>6. tables'[a][d].cost = tables[n][d].cost + graph[a][n]
        BY <3>2 DEF NewCost
      <4> QED
        BY <4>2, <4>3, <4>4, <4>5, <4>6
    <3> QED
      BY <1>1, <3>1, <3>2, RouteAfterRound
  <2> QED
    BY <1>1, <1>4, <2>4 DEF WalkInv, Covered
<1>5. CASE ~Changed
  <2>1. ASSUME NEW a \in Nodes, NEW d \in DOMAIN tables'[a]
        PROVE  d \in DOMAIN tables[a] /\ tables'[a][d] = tables[a][d]
    <3>1. d \in Nodes /\ \A x \in Nodes : Better(a, x) = {}
      BY <1>1, <1>5, RouteAfterRound DEF Changed
    <3> QED
      BY <1>1, <3>1, RouteAfterRound
  <2>2. Covered(N - 1)
    <3>1. CASE round < N
      <4>1. round \in 0 .. N - 1
        BY <1>1, <3>1
      <4> QED
        BY <1>1, <4>1, CoveredFarther DEF WalkInv
    <3>2. CASE N = 1
      <4>1. PICK x : Nodes = {x}
        BY <1>1, <3>2, NodesFinite, FS_Singleton
      <4>2. ASSUME NEW a \in Nodes, NEW d \in DOMAIN tables[a]
            PROVE  \E w \in Walks(0) : w.from = a /\ w.to = d /\ w.cost <= tables[a][d].cost
        <5>1. d = a /\ tables[a][a].cost = 0
          BY <1>1, <4>1 DEF TypeOK, RoundsInv, LinksKnown
        <5>2. [from |-> a, to |-> a, cost |-> 0] \in Walks(0)
          BY <1>1, WalksStep DEF EmptyWalks, Nodes
        <5> QED
          BY <5>1, <5>2
      <4> QED
        BY <3>2, <4>2 DEF Covered
    <3> QED
      BY <1>1, <1>3, <3>1, <3>2
  <2>3. ASSUME NEW a \in Nodes, NEW d \in DOMAIN tables'[a]
        PROVE  \E w \in Walks(N - 1) : w.from = a /\ w.to = d /\ w.cost <= tables'[a][d].cost
    BY <2>1, <2>2 DEF Covered
  <2> QED
    BY <1>1, <1>5, <2>3 DEF WalkInv, Covered
<1> QED
  BY <1>4, <1>5

-----------------------------------------------------------------------------
(* No table is better than the walks, when the script ends. *)

\* Then a route can be followed by any link: what is known of a node is known
\* of its neighbours.
LEMMA Followed ==
  ASSUME IInv, LinksKnown, Settled, ~running
  PROVE  \A a \in Nodes : \A m \in DOMAIN tables[a] : \A n \in Neighbours(m) :
           n \in DOMAIN tables[a] /\ tables[a][n].cost <= tables[a][m].cost + graph[m][n]
<1> DEFINE Ok(a, m) == \A n \in Neighbours(m) :
             n \in DOMAIN tables[a] /\ tables[a][n].cost <= tables[a][m].cost + graph[m][n]
           Bad == {c \in Nat : \E a \in Nodes : \E m \in DOMAIN tables[a] :
                                  ~Ok(a, m) /\ c = tables[a][m].cost}
<1>1. \A a \in Nodes : \A m \in DOMAIN tables[a] : m \in Nodes /\ tables[a][m].cost \in Nat
  BY DEF IInv, TypeOK
<1> HIDE DEF Ok
<1>2. Bad \subseteq Nat
  OBVIOUS
<1>3. CASE Bad = {}
  BY <1>1, <1>3 DEF Ok
<1>4. CASE Bad # {}
  <2>1. PICK c \in Bad : \A e \in Bad : c <= e
    <3> HIDE DEF Bad
    <3> QED
      BY <1>2, <1>4, LeastNumber
  <2>2. PICK a \in Nodes : \E x \in DOMAIN tables[a] : ~Ok(a, x) /\ c = tables[a][x].cost
    BY <2>1
  <2>3. PICK m \in DOMAIN tables[a] : ~Ok(a, m) /\ c = tables[a][m].cost
    BY <2>2
  <2>4. \A p \in Nodes : \A x \in DOMAIN tables[p] : tables[p][x].cost < c => Ok(p, x)
    BY <1>1, <2>1, <2>2
  <2> HIDE DEF Bad
  <2>5. m # a
    BY <2>3, GraphFacts DEF LinksKnown, IInv, Ok
  <2> DEFINE h == tables[a][m].via
  <2>6. h \in Neighbours(a) /\ m \in DOMAIN tables[h] /\ tables[a][m].cost >= NewCost(a, h, m)
    BY <2>3, <2>5 DEF IInv, NextHopIsNearer
  <2> HIDE DEF h
  <2>7. /\ h \in Nodes /\ graph[a][h] \in Nat \ {0} /\ tables[h][m].cost \in Nat
        /\ NewCost(a, h, m) = tables[h][m].cost + graph[a][h]
    BY <2>6, CostType DEF IInv, NewCost
  <2>8. Ok(h, m)
    BY <1>1, <2>3, <2>4, <2>6, <2>7
  <2>9. ASSUME NEW n \in Neighbours(m)
        PROVE  n \in DOMAIN tables[a] /\ tables[a][n].cost <= tables[a][m].cost + graph[m][n]
    <3>1. n \in DOMAIN tables[h] /\ tables[h][n].cost <= tables[h][m].cost + graph[m][n]
      BY <2>8 DEF Ok
    <3>2. n \in DOMAIN tables[a] /\ tables[a][n].cost <= NewCost(a, h, n)
      BY <2>6, <3>1 DEF Settled
    <3>3. NewCost(a, h, n) = tables[h][n].cost + graph[a][h]
      BY DEF NewCost
    <3>4. /\ graph[m][n] \in Nat /\ tables[a][n].cost \in Nat /\ tables[h][n].cost \in Nat
          /\ tables[a][m].cost \in Nat
      BY <1>1, <2>3, <2>7, <3>1, <3>2, GraphFacts DEF IInv
    <3> QED
      BY <2>6, <2>7, <3>1, <3>2, <3>3, <3>4
  <2> QED
    BY <2>3, <2>9 DEF Ok
<1> QED
  BY <1>3, <1>4

\* So no walk is cheaper than the route between its ends.
LEMMA NoneBetter ==
  ASSUME IInv, LinksKnown, Settled, ~running
  PROVE  \A k \in 0 .. Cardinality(Nodes) : \A w \in Walks(k) :
           w.to \in DOMAIN tables[w.from] /\ tables[w.from][w.to].cost <= w.cost
<1> DEFINE N == Cardinality(Nodes)
           Good(k) == \A w \in Walks(k) :
             w.to \in DOMAIN tables[w.from] /\ tables[w.from][w.to].cost <= w.cost
           S == {k \in 0 .. N : Good(k)}
<1>1. N \in Nat /\ graph \in Graphs
  BY NodesFinite DEF IInv
<1>2. Good(0)
  BY <1>1, WalksStep DEF EmptyWalks, LinksKnown, Nodes
<1>3. ASSUME NEW k \in 0 .. N - 1, Good(k) PROVE Good(k + 1)
  <2>1. Walks(k + 1) = Longer(graph, Walks(k)) /\ Walks(k) \subseteq Walk
    BY <1>1, WalksStep, WalksType
  <2>2. ASSUME NEW u \in Walks(k), NEW n \in Neighbours(u.to), NEW w, w = WithLink(u, n)
        PROVE  w.to \in DOMAIN tables[w.from] /\ tables[w.from][w.to].cost <= w.cost
    <3>1. w.from = u.from /\ w.to = n /\ w.cost = u.cost + graph[u.to][n]
      BY <2>2 DEF WithLink
    <3>2. u.from \in Nodes /\ u.to \in Nodes /\ u.cost \in Nat
      BY <2>1 DEF Walk
    <3>3. u.to \in DOMAIN tables[u.from] /\ tables[u.from][u.to].cost <= u.cost
      BY <1>3
    <3>4. n \in DOMAIN tables[u.from] /\ tables[u.from][n].cost <= tables[u.from][u.to].cost + graph[u.to][n]
      BY <3>2, <3>3, Followed
    <3>5. tables[u.from][n].cost \in Nat /\ tables[u.from][u.to].cost \in Nat /\ graph[u.to][n] \in Nat
      BY <1>1, <3>2, <3>3, <3>4, GraphFacts DEF IInv, TypeOK
    <3> HIDE DEF Good
    <3> QED
      BY <3>1, <3>2, <3>3, <3>4, <3>5
  <2>3. \A w \in Walks(k + 1) :
          w \in Walks(k) \/ \E u \in Walks(k) : \E n \in Neighbours(u.to) : w = WithLink(u, n)
    BY <1>1, <2>1, LongerOnlyThese
  <2> QED
    BY <1>3, <2>2, <2>3
<1> HIDE DEF Good
<1>4. 0 \in S /\ \A k \in 0 .. N - 1 : k \in S => k + 1 \in S
  BY <1>1, <1>2, <1>3
<1>5. \A k \in 0 .. N : k \in S
  <2> HIDE DEF S, N
  <2> QED
    BY <1>1, <1>4, UpTo
<1> QED
  BY <1>5 DEF Good

\* When the script ends, its tables hold the shortest distances between the
\* nodes of the network, and routes to exactly the nodes that can be reached.
THEOREM EndsShortest == Spec => []ShortestAtTheEnd
<1>1. Init => WalkInv
  BY WalkInit
<1>2. RoundsInv /\ WalkInv /\ [Round]_vars => WalkInv'
  <2>1. ASSUME WalkInv, UNCHANGED vars PROVE WalkInv'
    BY <2>1 DEF vars, WalkInv, Covered, Walks, Nodes
  <2> QED
    BY <2>1, WalkStep
<1>3. RoundsInv /\ WalkInv /\ Settled => ShortestAtTheEnd
  <2> SUFFICES ASSUME RoundsInv, WalkInv, Settled, ~running
               PROVE  UNION {{[from |-> a, to |-> d, cost |-> tables[a][d].cost] : d \in DOMAIN tables[a]} :
                               a \in Nodes} = Distances
    BY DEF ShortestAtTheEnd
  <2> DEFINE M == Cardinality(Nodes) - 1
  <2>1. IInv /\ LinksKnown /\ graph \in Graphs /\ TypeOK /\ M \in 0 .. Cardinality(Nodes)
    BY NodesFinite DEF RoundsInv, IInv
  <2>2. /\ Walks(M) \subseteq Walk
        /\ \A v, w \in Walks(M) : SameEnds(v, w) => v.cost = w.cost
    BY <2>1, WalksType
  <2>3. Distances = Walks(M) /\ Covered(M)
    BY DEF Distances, Walks, WalkInv
  <2>4. \A w \in Walks(M) : w.to \in DOMAIN tables[w.from] /\ tables[w.from][w.to].cost <= w.cost
    BY <2>1, NoneBetter
  <2> HIDE DEF M
  <2>5. ASSUME NEW a \in Nodes, NEW d \in DOMAIN tables[a]
        PROVE  [from |-> a, to |-> d, cost |-> tables[a][d].cost] \in Walks(M)
    <3>1. PICK w \in Walks(M) : w.from = a /\ w.to = d /\ w.cost <= tables[a][d].cost
      BY <2>3 DEF Covered
    <3>2. tables[a][d].cost <= w.cost /\ w.cost \in Nat /\ tables[a][d].cost \in Nat
      BY <2>1, <2>2, <2>4, <3>1 DEF Walk, TypeOK
    <3>3. w = [from |-> a, to |-> d, cost |-> tables[a][d].cost]
      BY <2>2, <3>1, <3>2 DEF Walk
    <3> QED
      BY <3>3
  <2>6. ASSUME NEW w \in Walks(M)
        PROVE  /\ w.from \in Nodes /\ w.to \in DOMAIN tables[w.from]
               /\ w = [from |-> w.from, to |-> w.to, cost |-> tables[w.from][w.to].cost]
    <3>1. w.from \in Nodes /\ w.to \in DOMAIN tables[w.from] /\ tables[w.from][w.to].cost <= w.cost
      BY <2>2, <2>4 DEF Walk
    <3>2. PICK v \in Walks(M) : v.from = w.from /\ v.to = w.to /\ v.cost <= tables[w.from][w.to].cost
      BY <2>3, <3>1 DEF Covered
    <3>3. v.cost = w.cost
      BY <2>2, <3>2 DEF SameEnds
    <3>4. w.cost \in Nat /\ tables[w.from][w.to].cost \in Nat
      BY <2>1, <2>2, <3>1 DEF Walk, TypeOK
    <3>5. w.cost = tables[w.from][w.to].cost
      BY <3>1, <3>2, <3>3, <3>4
    <3> QED
      BY <2>2, <3>1, <3>5 DEF Walk
  <2> QED
    BY <2>3, <2>5, <2>6
<1> QED
  BY <1>1, <1>2, <1>3, RoundsInvariance, EndsSettled, PTL DEF Spec
=============================================================================
