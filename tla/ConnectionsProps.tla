-------------------------- MODULE ConnectionsProps --------------------------
(***************************************************************************)
(* What netsim owes the routers that connect to it, and what it still owes *)
(* to one address when there is trouble at another.                        *)
(***************************************************************************)
EXTENDS Connections

\* Every variable stays within its type.
TypeOK ==
  /\ router \in [Routers -> [pc : {"off", "link", "id", "run", "done", "dead"}, i : Links]]
  /\ overlapped \subseteq Ips
  /\ ids \subseteq Routers \X Links
  /\ error_backlog \in Seq(Routers)
  /\ backlog \in [Links -> Seq(Routers)]
  /\ streams \in [Ips -> Routers \cup {NoStream}]
  /\ connections \in [Ips -> [conn_count : 0 .. ROUTER_LINK_COUNT - 1,
                              conn_vec : [Links -> Routers \cup {NoStream}]]]
  /\ simulations \in Seq([ip : Ips, links : [Links -> Routers \cup {NoStream}], i : Links,
                          pc : {"validate", "panicked", "failed", "report", "tell", "over"}])
  /\ results \subseteq (DOMAIN simulations) \X Routers
  /\ ended \subseteq Routers \X Links /\ closed \subseteq Routers \X Links
  /\ crashed \in BOOLEAN

\* send_message() finds a stream whatever the routers do: a router connects
\* to the error port before its first link, and streams are replaced, never
\* removed.  Otherwise "error stream does not exist" would end netsim, and
\* with it the simulations of all other routers.
NetsimStaysUp == ~crashed

\* An address in good use: its runs follow one another and none has died.
Good(ip) ==
  ip \notin overlapped /\ \A r \in Routers : IpOf[r] = ip => ~Dead(r)

\* Whatever happens at other addresses, at one in good use a simulation has
\* every link, and all its links belong to one run of the router.
WholeSimulations ==
  \A k \in DOMAIN simulations :
    Good(simulations[k].ip) =>
      \E r \in Routers : simulations[k].links = [l \in Links |-> r]

\* The results of a simulation go to the run that was simulated, also when
\* an earlier run at the address had left its stream in the table.
ResultsReachTheirRouter ==
  \A k \in DOMAIN simulations, r \in Routers :
    <<k, r>> \in results /\ Good(simulations[k].ip) =>
      simulations[k].links = [l \in Links |-> r]

\* netsim closes a link of a run at an address in good use only after ERR or
\* END went out on it: neither a connection that takes its place in the table
\* nor a thread that panics over another router's links takes it away.
ClosedAfterTheEnd ==
  \A r \in Routers, l \in Links :
    <<r, l>> \in closed /\ <<r, l>> \notin ended => ~Good(IpOf[r])

\* A run at an address in good use is simulated, gets its results and ends,
\* although runs at other addresses die and are tried again: again and again
\* no such run is waiting (and none can wait twice).
RoutersAreServed == []<>(\A r \in Routers : Active(r) => ~Good(IpOf[r]))

\* main.rs: "count of connections connected", and "If all router links have
\* connected, start simulation": a simulation that starts has all its links.
AllLinksHaveConnected ==
  \A k \in DOMAIN simulations : simulations[k].pc # "panicked"
=============================================================================
