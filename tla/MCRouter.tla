------------------------------ MODULE MCRouter ------------------------------
(***************************************************************************)
(* Small instances of the router: four subnets, two links.  Subnet 3 is    *)
(* the router's own, 2 and 1 are the neighbours on links 0 and 1, and 0 is *)
(* unknown until somebody offers it.                                       *)
(***************************************************************************)
EXTENDS RouterProps, TLC

MCLinkWeights == 0 :> 2 @@ 1 :> 3
MCNeighbours  == 0 :> 2 @@ 1 :> 1

LOCAL E(s, c) == [dest_subnet |-> s, cost |-> c]
LOCAL CommandsWith(times, lists) ==
  {[timestamp |-> ts, entries |-> l] : ts \in times, l \in lists}

\* A new subnet, a better and a worse route, two entries for one subnet, a
\* claim on the router's own subnet whose cost wraps to 0, a cost that
\* wraps for another subnet, a subnet beyond the table, and no entry.
MCCommands ==
  CommandsWith(0 .. 3,
    { <<>>, << E(0, 9) >>, << E(0, 1), E(1, 0) >>, << E(0, 9), E(0, 4) >>,
      << E(2, 255), E(3, 254) >>, << E(4, 0), E(1, 9) >> })

\* Fewer for the runs with every interleaving: a new subnet at two costs,
\* from both neighbours, and the claim on the router's own subnet.
MCRaceCommands ==
  CommandsWith(1 .. 2, { << E(0, 1) >>, << E(0, 5), E(3, 254) >> })

\* One subnet of each sort, and the three interesting values of the TTL.
MCDataPackets == {[dest |-> 0, ttl |-> 1], [dest |-> 1, ttl |-> 2],
                  [dest |-> 4, ttl |-> 15], [dest |-> 12, ttl |-> 2],
                  [dest |-> 14, ttl |-> 0]}
MCRacePackets == {[dest |-> 1, ttl |-> 2], [dest |-> 12, ttl |-> 2]}
=============================================================================
