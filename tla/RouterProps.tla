----------------------------- MODULE RouterProps -----------------------------
(***************************************************************************)
(* What the router must never do, and what it must eventually do.  Some    *)
(* properties survive every interleaving of the five threads (Spec); the   *)
(* others hold when packets come one at a time, as netsim sends them       *)
(* (LockStepSpec).                                                         *)
(***************************************************************************)
EXTENDS Router

\* Every variable stays within its type.
TypeOK ==
  /\ last_timestamp \in Timestamp
  /\ dv \in [Subnets -> RouteEntry]
  /\ dv_entry_count \in Byte
  /\ pc \in [AllLinks -> Locations]
  /\ frame \in [AllLinks -> Frame]
  /\ up \in [AllLinks -> BOOLEAN]
  /\ alive \in BOOLEAN
  /\ view \in [Links -> Seq(CommandEntry)]
  /\ event \in Event
  /\ offered \in [Links -> SUBSET (Byte \X Byte)]

-----------------------------------------------------------------------------
(* Properties of every interleaving. *)

\* The route to the router's own subnet stays at cost 0 with no next hop,
\* whatever the neighbours claim about that subnet: route() compares before
\* it stores, and no thread may get past the comparison with such an entry.
SelfRoute == dv[MY_SUBNET] = Route(0, NO_NEXT_HOP_LINK)

\* A data packet disappears without a drop code only if it is addressed to
\* the router's own subnet (which has no next hop) or to a broken link.
\* In particular no thread ever sees another route without a next hop.
OnlyOwnSubnetIsLost ==
  event.kind = "lost" =>
    \/ event.subnet = MY_SUBNET
    \/ \E l \in AllLinks : ~up[l]

\* Once no call is running, every route that was not there at the start
\* leads over a link whose neighbour offered that subnet.
RestingRouteWasOffered ==
  AllIdle =>
    \A s \in Subnets :
      dv[s].is_valid /\ dv[s] # InitialEntry(s) =>
        \E c \in Byte : <<s, c>> \in offered[dv[s].next_hop_link]

\* route(): "Assume that table entry count never exceeds max capacity of a
\* command packet."  A table that is being sent has no more entries than
\* there are subnets, fits the entries array of the packet, and its length
\* fits the byte for it.
BroadcastFits ==
  \A t \in AllLinks :
    pc[t] = "send" =>
      /\ Len(frame[t].out) <= SUBNET_ADDRESS_MAX
      /\ Len(frame[t].out) <= MAX_COMMAND_ENTRIES
      /\ CommandLength(Len(frame[t].out)) <= MAX_PACKET_SIZE

-----------------------------------------------------------------------------
(* Properties of the router fed one packet at a time. *)

\* The accepted timestamps never go back: what common.h asks of outdated
\* commands, and what the test before the store is there for.
ClockNeverBack == [][last_timestamp' >= last_timestamp]_vars

\* With no call running the table is exactly the cheapest of the initial
\* route and all offers accepted so far, and the next hop made that offer.
BestOffer ==
  AllIdle =>
    \A s \in Subnets :
      LET known == UNION {offered[l] : l \in Links}
          costs == {o[2] : o \in {p \in known : p[1] = s}}
                     \cup (IF InitialEntry(s).is_valid THEN {InitialEntry(s).cost} ELSE {})
      IN  /\ dv[s].is_valid <=> costs # {}
          /\ dv[s].is_valid =>
               /\ dv[s].cost \in costs /\ \A c \in costs : dv[s].cost <= c
               /\ \/ dv[s] = InitialEntry(s)
                  \/ <<s, dv[s].cost>> \in offered[dv[s].next_hop_link]

\* A data packet only goes out on the link of its subnet's initial route or
\* on a link that offered the subnet: never on the link 0 of an entry that
\* is marked valid before its next hop is stored.
ForwardedWhereOffered ==
  event.kind = "forward" =>
    \/ event.link = InitialEntry(event.subnet).next_hop_link
         /\ InitialEntry(event.subnet).is_valid
    \/ \E c \in Byte : <<event.subnet, c>> \in offered[event.link]

\* dv_entry_count is the number of valid entries when no call is running.
CountMatches ==
  AllIdle => dv_entry_count = Cardinality({s \in Subnets : dv[s].is_valid})

\* What a neighbour is told is a promise: at no moment, not even between two
\* stores, does the router lack a route it last advertised or have a dearer
\* one, also where a failed send() ended the broadcast before that link was
\* served.  With no call running the neighbour has exactly the router's
\* costs, except that nothing is sent before the first change, and that a
\* link up to its own may have broken: it then has those of some earlier
\* table.
NeighboursInformed ==
  \A l \in Links :
    /\ \A p \in CostsIn(view[l]) :
         p[1] \in Subnets /\ dv[p[1]].is_valid /\ dv[p[1]].cost <= p[2]
    /\ AllIdle =>
         \/ CostsIn(view[l]) = Costs(dv)
         \/ view[l] = <<>> /\ Costs(dv) = Costs(InitialTable)
         \/ \E k \in 0 .. l : ~up[k]

\* One call that changed the table comes to its end, through all its loops,
\* and then every neighbour has been sent the change, unless a link broke.
ChangeReachesNeighbours ==
  \A t \in Links :
    (pc[t] = "hop") ~>
      \/ AllIdle /\ \A l \in Links : CostsIn(view[l]) = Costs(dv)
      \/ \E l \in AllLinks : ~up[l]

-----------------------------------------------------------------------------
(* The router implements RouteTable: a whole command takes effect when its *)
(* timestamp is stored, and the half-done merge is completed in the        *)
(* mapping.                                                                *)

Updating == {t \in Links : pc[t] \in {"compare", "count", "bump", "valid", "cost", "hop"}}

\* The table with the store under way finished.
StoreDone(t) ==
  IF pc[t] = "compare" THEN dv ELSE [dv EXCEPT ![Entry(t).dest_subnet] = Route(Offer(t), t)]

\* The entries the loop has not reached.
Rest(t) ==
  SubSeq(frame[t].cmd.entries,
         IF pc[t] = "compare" THEN frame[t].i ELSE frame[t].i + 1,
         Len(frame[t].cmd.entries))

\* What the abstract specification has to do with the rest: its Merge.
Spare == INSTANCE RouteTable WITH
           routes <- dv, clock <- last_timestamp, pending <- {},
           told <- [l \in Links |-> CostsIn(view[l])],
           working <- {l \in AllLinks : up[l]}

TargetTable ==
  IF Updating = {} THEN dv
  ELSE LET t == CHOOSE u \in Updating : TRUE
       IN  Spare!Merge(StoreDone(t), Offers(Rest(t), t), t)

\* A call will broadcast if it has changed something or still will.
WillBroadcast(t) ==
  \/ frame[t].changed
  \/ TargetTable # dv
  \/ pc[t] # "compare"
  \/ \E o \in Offers(Rest(t), t) : o[1] \notin Subnets

StillToTell ==
  IF \E t \in Updating : WillBroadcast(t) THEN Links
  ELSE IF \E t \in Links : pc[t] = "scan" THEN Links
  ELSE UNION {frame[t].i .. ROUTER_LINK_COUNT - 1 : t \in {u \in Links : pc[u] = "send"}}

Abstract == INSTANCE RouteTable WITH
              routes <- TargetTable, clock <- last_timestamp,
              pending <- StillToTell,
              told <- [l \in Links |-> CostsIn(view[l])],
              working <- {l \in AllLinks : up[l]}

\* Fed one packet at a time, the router behaves as the abstract table: each
\* command takes effect as a whole and is advertised before the next.
ImplementsRouteTable == Abstract!Spec

=============================================================================
