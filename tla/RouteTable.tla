----------------------------- MODULE RouteTable -----------------------------
(***************************************************************************)
(* What the router promises about its routing table: a command newer than  *)
(* every earlier one is merged into the table as a whole, and a changed    *)
(* table is sent to the neighbours, link by link, before the next command  *)
(* is accepted.  There are no threads, loops or half-written entries here. *)
(***************************************************************************)
EXTENDS RouterApi

CONSTANT Breakable

VARIABLES
  routes,   \* the routing table
  clock,    \* timestamp of the last accepted command
  pending,  \* links the current table still has to be sent on
  told,     \* costs in the last table sent on each link
  working   \* the connections that still work

vars == <<routes, clock, pending, told, working>>

Least(S) == CHOOSE x \in S : \A y \in S : x <= y

\* A route is replaced by the cheapest offer that beats it.
Merge(old, offers, l) ==
  [s \in Subnets |->
     LET costs == {o[2] : o \in {p \in offers : p[1] = s}}
     IN  IF costs = {} \/ (old[s].is_valid /\ old[s].cost <= Least(costs))
           THEN old[s]
           ELSE Route(Least(costs), l)]

Init ==
  /\ routes = InitialTable
  /\ clock = 0
  /\ pending = {}
  /\ told = [l \in Links |-> {}]
  /\ working = AllLinks

\* An entry for a subnet outside the table makes the router advertise an
\* unchanged table; apart from that it advertises changes only.
Accept(l, c) ==
  /\ pending = {}
  /\ c.timestamp > clock
  /\ clock' = c.timestamp
  /\ routes' = Merge(routes, Offers(c.entries, l), l)
  /\ pending' = IF \/ routes' # routes
                   \/ \E o \in Offers(c.entries, l) : o[1] \notin Subnets
                  THEN Links ELSE {}
  /\ UNCHANGED <<told, working>>

Advertise(l) ==
  /\ pending # {} /\ l = Least(pending) /\ l \in working
  /\ told' = [told EXCEPT ![l] = Costs(routes)]
  /\ pending' = pending \ {l}
  /\ UNCHANGED <<routes, clock, working>>

\* A broken link loses its table, or ends the round for the links after it.
Skip(l) ==
  /\ pending # {} /\ l = Least(pending) /\ l \notin working
  /\ pending' \in {pending \ {l}, {}}
  /\ UNCHANGED <<routes, clock, told, working>>

Break(l) ==
  /\ l \in Breakable \cap working
  /\ working' = working \ {l}
  /\ UNCHANGED <<routes, clock, pending, told>>

Next ==
  \/ \E l \in Links, c \in Commands : Accept(l, c)
  \/ \E l \in Links : Advertise(l) \/ Skip(l)
  \/ \E l \in AllLinks : Break(l)

Spec == Init /\ [][Next]_vars
=============================================================================
