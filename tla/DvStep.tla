------------------------------- MODULE DvStep -------------------------------
(***************************************************************************)
(* dv-step.py: distance vector in rounds over a whole network.  In every   *)
(* round each node merges the tables its neighbours had at the start of    *)
(* the round; the script ends with the first round that changes nothing.   *)
(*                                                                         *)
(* As in the script, graphs and tables are dictionaries: graph[a][n] is    *)
(* the weight of the link from a to n, tables[a][d] the route from a to d. *)
(*                                                                         *)
(* A definition that a comment calls a mutation is no part of the model:   *)
(* it is a plausible bug in the definition after it, used to show that the *)
(* properties would notice.                                                *)
(***************************************************************************)
EXTENDS Integers, FiniteSets

CONSTANT Graphs   \* the networks the script may be given

\* A dictionary is finite, and has the node whose table is printed.
IsGraph(g) ==
  /\ DOMAIN g \subseteq Nat /\ IsFiniteSet(DOMAIN g) /\ DOMAIN g # {}
  /\ \A a \in DOMAIN g :
       DOMAIN g[a] \subseteq DOMAIN g \ {a} /\ \A n \in DOMAIN g[a] : g[a][n] \in Nat \ {0}

ASSUME GraphAssumption == \A g \in Graphs : IsGraph(g)

VARIABLES graph, tables, round, running
vars == <<graph, tables, round, running>>

Nodes         == DOMAIN graph
Neighbours(a) == DOMAIN graph[a]

\* Neighbours at the weight of the link, oneself at 0.
FirstTable(g, a) ==
  [d \in DOMAIN g[a] \cup {a} |->
     IF d = a THEN [cost |-> 0, via |-> a] ELSE [cost |-> g[a][d], via |-> d]]

Init ==
  /\ graph \in Graphs
  /\ tables = [a \in DOMAIN graph |-> FirstTable(graph, a)]
  /\ round = 1 /\ running = TRUE

-----------------------------------------------------------------------------
(* update_table(), for one node and all its neighbours in turn. *)

NewCost(a, n, d) == tables[n][d].cost + graph[a][n]

\* Mutation: a route of the same cost replaces the old one.
BetterOrEqual(a, d) ==
  {n \in Neighbours(a) :
     /\ d \in DOMAIN tables[n]
     /\ d \in DOMAIN tables[a] => tables[a][d].cost >= NewCost(a, n, d)}

\* The neighbours whose table has a better route to d.
Better(a, d) ==
  {n \in Neighbours(a) :
     /\ d \in DOMAIN tables[n]
     /\ d \in DOMAIN tables[a] => tables[a][d].cost > NewCost(a, n, d)}

\* One after the other replaces the route if it is better still; so the
\* cheapest stays, of several the first.  The graph lists them by address.
Winner(a, d) ==
  CHOOSE n \in Better(a, d) :
    \A m \in Better(a, d) :
      \/ NewCost(a, n, d) < NewCost(a, m, d)
      \/ NewCost(a, n, d) = NewCost(a, m, d) /\ n <= m

\* Mutations: the weight of the link is forgotten; the route leads over its
\* own destination.
RouteOverUnweighted(a, n, d) == [cost |-> tables[n][d].cost, via |-> n]
RouteOverItself(a, n, d)     == [cost |-> NewCost(a, n, d), via |-> d]
RouteOver(a, n, d)           == [cost |-> NewCost(a, n, d), via |-> n]

Updated(a) ==
  [d \in DOMAIN tables[a] \cup {x \in Nodes : Better(a, x) # {}} |->
     IF Better(a, d) = {} THEN tables[a][d] ELSE RouteOver(a, Winner(a, d), d)]

-----------------------------------------------------------------------------
\* Mutation: only a new destination counts as a change.
ChangedIfNew == \E a, d \in Nodes : Better(a, d) # {} /\ d \notin DOMAIN tables[a]
Changed      == \E a, d \in Nodes : Better(a, d) # {}

Round ==
  /\ running
  /\ tables' = [a \in Nodes |-> Updated(a)]
  /\ round' = round + 1
  /\ running' = Changed
  /\ UNCHANGED graph

Spec == Init /\ [][Round]_vars
=============================================================================
