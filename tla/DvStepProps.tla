----------------------------- MODULE DvStepProps -----------------------------
(***************************************************************************)
(* What the tables of the script mean, round by round and at the end.      *)
(***************************************************************************)
EXTENDS DvStep

\* A route is to the node itself, or to a known node over a neighbour.
TypeOK ==
  /\ round \in Nat \ {0} /\ running \in BOOLEAN
  /\ \A a \in Nodes :
       /\ a \in DOMAIN tables[a] /\ DOMAIN tables[a] \subseteq Nodes
       /\ \A d \in DOMAIN tables[a] :
            tables[a][d] \in [cost : Nat, via : Neighbours(a) \cup {a}]

\* In every round the next hop of a route is nearer to its destination, by
\* the weight of the link at least: no packet would ever go in a circle,
\* although all nodes change their tables at once.
NextHopIsNearer ==
  \A a \in Nodes : \A d \in DOMAIN tables[a] \ {a} :
    LET n == tables[a][d].via IN
    /\ n \in Neighbours(a) /\ d \in DOMAIN tables[n]
    /\ tables[a][d].cost >= NewCost(a, n, d)

-----------------------------------------------------------------------------
(* Distances, computed in another way: the cheapest walks over one link    *)
(* more at a time, from the empty walks on.                                *)

Cheapest(walks) ==
  {w \in walks : \A v \in walks : v.from = w.from /\ v.to = w.to => w.cost <= v.cost}

Longer(g, walks) ==
  Cheapest(walks \cup
    UNION {{[from |-> w.from, to |-> n, cost |-> w.cost + g[w.to][n]] : n \in DOMAIN g[w.to]} :
             w \in walks})

\* Of at most k links each.
WalksOf(g) ==
  LET Walks[k \in 0 .. Cardinality(DOMAIN g)] ==
        IF k = 0 THEN {[from |-> a, to |-> a, cost |-> 0] : a \in DOMAIN g}
        ELSE Longer(g, Walks[k - 1])
  IN Walks

Distances == WalksOf(graph)[Cardinality(Nodes) - 1]

\* When the script ends, its tables hold the shortest distances, and routes
\* to exactly the nodes that can be reached.
ShortestAtTheEnd ==
  ~running =>
    UNION {{[from |-> a, to |-> d, cost |-> tables[a][d].cost] : d \in DOMAIN tables[a]} :
             a \in Nodes} = Distances

\* It ends, with no more rounds than there are nodes: each round finds the
\* shortest paths with one link more, the last one finds nothing.
FewRounds == round <= Cardinality(Nodes) \/ (Cardinality(Nodes) = 1 /\ round = 2)
=============================================================================
