----------------------------- MODULE Connections -----------------------------
(***************************************************************************)
(* How routers get to be simulated: every run of the router program opens  *)
(* a connection for its results and one per link; netsim accepts them with *)
(* a thread per port, keeps them by IP address, and starts a simulation    *)
(* when it has counted enough.  Routers may die, be run again at the same  *)
(* address, or run side by side behind one address.                        *)
(*                                                                         *)
(* A connection is named by the run of the router that opened it; which of *)
(* its connections it is follows from where it is kept.                    *)
(*                                                                         *)
(* A definition that a comment calls a mutation is no part of the model:   *)
(* it is a plausible bug in the definition after it, used to show that the *)
(* properties would notice.                                                *)
(***************************************************************************)
EXTENDS Integers, Sequences, FiniteSets

CONSTANTS
  ROUTER_LINK_COUNT,
  Routers,      \* runs of the router program
  Mortal,       \* those of them that may die of themselves
  Ips, IpOf,    \* addresses, and the address of each run
  NoStream      \* None, for a stream

Links == 0 .. ROUTER_LINK_COUNT - 1

ASSUME RouterAssumption ==
  /\ ROUTER_LINK_COUNT \in Nat \ {0}
  /\ IpOf \in [Routers -> Ips] /\ Mortal \subseteq Routers
  /\ NoStream \notin Routers

VARIABLES
  router,         \* each run's place in main() of router_driver.c
  overlapped,     \* (history) addresses at which two runs were active at once
  ids,            \* <<r, l>>: the ID byte of link l has been sent
  error_backlog, backlog,  \* connections not yet accepted, by port
  streams,        \* ErrorHandler: result stream of each address
  connections,    \* ConnectionTable
  simulations,    \* simulation threads, in the order of their start
  results,        \* <<k, r>>: the results of simulation k went to run r
  ended, closed,  \* <<r, l>>: got the ERR or END packet; closed by netsim
  crashed         \* netsim has called exit(1)

runs   == <<router, overlapped, ids>>
ports  == <<error_backlog, backlog>>
tables == <<streams, connections>>
ends   == <<results, ended, closed>>
vars   == <<runs, ports, tables, simulations, ends, crashed>>

\* What or_insert_with() puts in the table for an address without an entry.
NoEntry == [conn_count |-> 0, conn_vec |-> [l \in Links |-> NoStream]]

Init ==
  /\ router = [r \in Routers |-> [pc |-> "off", i |-> 0]]
  /\ overlapped = {} /\ ids = {}
  /\ error_backlog = <<>> /\ backlog = [l \in Links |-> <<>>]
  /\ streams = [ip \in Ips |-> NoStream]
  /\ connections = [ip \in Ips |-> NoEntry]
  /\ simulations = <<>>
  /\ results = {} /\ ended = {} /\ closed = {}
  /\ crashed = FALSE

-----------------------------------------------------------------------------
(* The router program: main() of router_driver.c. *)

At(r, pc) == router[r].pc = pc
Goto(r, pc, i) == router' = [router EXCEPT ![r] = [pc |-> pc, i |-> i]]
Active(r) == router[r].pc \in {"link", "id", "run"}

\* connect() to the error port comes before the links.
RouterStart(r) ==
  /\ At(r, "off")
  /\ error_backlog' = Append(error_backlog, r)
  /\ Goto(r, "link", 0)
  /\ overlapped' = IF \E q \in Routers : Active(q) /\ IpOf[q] = IpOf[r]
                     THEN overlapped \cup {IpOf[r]} ELSE overlapped
  /\ UNCHANGED <<ids, backlog, tables, simulations, ends, crashed>>

RouterConnect(r) ==
  LET i == router[r].i IN
  /\ At(r, "link")
  /\ backlog' = [backlog EXCEPT ![i] = Append(@, r)]
  /\ Goto(r, "id", i)
  /\ UNCHANGED <<overlapped, ids, error_backlog, tables, simulations, ends, crashed>>

\* Mutation: the loop over the links runs once too often.
NextLinkLong(r, i) == IF i <= ROUTER_LINK_COUNT THEN Goto(r, "link", i) ELSE Goto(r, "run", 0)
NextLink(r, i)     == IF i < ROUTER_LINK_COUNT THEN Goto(r, "link", i) ELSE Goto(r, "run", 0)

RouterIdentify(r) ==
  /\ At(r, "id")
  /\ ids' = ids \cup {<<r, router[r].i>>}
  /\ NextLink(r, router[r].i + 1)
  /\ UNCHANGED <<overlapped, ports, tables, simulations, ends, crashed>>

\* Every link thread has returned and print_results() has its message.
RouterEnd(r) ==
  /\ At(r, "run")
  /\ \A l \in Links : <<r, l>> \in ended
  /\ \E k \in DOMAIN simulations : <<k, r>> \in results
  /\ Goto(r, "done", 0)
  /\ UNCHANGED <<overlapped, ids, ports, tables, simulations, ends, crashed>>

\* recv() returns 0 on a link without ERR or END: expect() exits.
RouterCutOff(r) ==
  /\ At(r, "run")
  /\ \E l \in Links : <<r, l>> \in closed /\ <<r, l>> \notin ended
  /\ Goto(r, "dead", 0)
  /\ UNCHANGED <<overlapped, ids, ports, tables, simulations, ends, crashed>>

\* The user ends it, or anything in it fails.
RouterDie(r) ==
  /\ r \in Mortal /\ Active(r)
  /\ Goto(r, "dead", 0)
  /\ UNCHANGED <<overlapped, ids, ports, tables, simulations, ends, crashed>>

Router(r) == RouterConnect(r) \/ RouterIdentify(r) \/ RouterEnd(r) \/ RouterCutOff(r)

-----------------------------------------------------------------------------
(* netsim: error_listen_thread() and link_listen_thread(). *)

\* Mutation: an address that has a stream keeps it.
InsertedFirst(r) == [streams EXCEPT ![IpOf[r]] = IF @ = NoStream THEN r ELSE @]
Inserted(r)      == [streams EXCEPT ![IpOf[r]] = r]

ErrorAccept ==
  /\ error_backlog # <<>>
  /\ streams' = Inserted(Head(error_backlog))
  /\ error_backlog' = Tail(error_backlog)
  /\ UNCHANGED <<runs, backlog, connections, simulations, ends, crashed>>

Whole(links) == \A l \in Links : links[l] # NoStream
Conns(links) == {<<links[l], l>> : l \in {m \in Links : links[m] # NoStream}}

\* The thread unwraps the streams first; a missing one is a panic of that
\* thread, which closes the others.
Simulation(ip, links) ==
  [ip |-> ip, links |-> links, i |-> 0, pc |-> IF Whole(links) THEN "validate" ELSE "panicked"]

\* Mutations: one connection fewer is enough; the entry stays in the table.
FullEarly(entry)    == entry.conn_count >= ROUTER_LINK_COUNT - 1
RemovedNever(entry) == entry

Full(entry)    == entry.conn_count = ROUTER_LINK_COUNT
Removed(entry) == NoEntry

\* One turn of the loop: the table is locked from the look-up to its end.
\* A stream that is overwritten is dropped, which closes it.
LinkAccept(l) ==
  LET r     == Head(backlog[l])
      ip    == IpOf[r]
      old   == connections[ip]
      entry == [conn_count |-> old.conn_count + 1, conn_vec |-> [old.conn_vec EXCEPT ![l] = r]]
      lost  == IF old.conn_vec[l] = NoStream THEN {} ELSE {<<old.conn_vec[l], l>>}
      panic == Full(entry) /\ ~Whole(entry.conn_vec) IN
  /\ backlog[l] # <<>>
  /\ backlog' = [backlog EXCEPT ![l] = Tail(@)]
  /\ connections' = [connections EXCEPT ![ip] = IF Full(entry) THEN Removed(entry) ELSE entry]
  /\ simulations' = IF Full(entry) THEN Append(simulations, Simulation(ip, entry.conn_vec))
                    ELSE simulations
  /\ closed' = closed \cup lost \cup (IF panic THEN Conns(entry.conn_vec) ELSE {})
  /\ UNCHANGED <<runs, error_backlog, streams, results, ended, crashed>>

-----------------------------------------------------------------------------
(* netsim: router_simulation(). *)

Step(k, pc, i) == simulations' = [simulations EXCEPT ![k].pc = pc, ![k].i = i]
Dead(r) == At(r, "dead")

\* validate_links() waits for the ID byte of each link.
Validate(k) ==
  LET i == simulations[k].i  r == simulations[k].links[i] IN
  /\ simulations[k].pc = "validate"
  /\ <<r, i>> \in ids
  /\ IF i + 1 < ROUTER_LINK_COUNT THEN Step(k, "validate", i + 1) ELSE Step(k, "report", 0)
  /\ UNCHANGED <<runs, ports, tables, ends, crashed>>

\* A connection closed before its byte: the links are dropped.
ValidateFails(k) ==
  LET i == simulations[k].i  r == simulations[k].links[i] IN
  /\ simulations[k].pc = "validate"
  /\ <<r, i>> \notin ids /\ Dead(r)
  /\ Step(k, "failed", 0)
  /\ closed' = closed \cup Conns(simulations[k].links)
  /\ UNCHANGED <<runs, ports, tables, results, ended, crashed>>

\* The test cases end early when a link fails (module Simulation); whether
\* cleanup_links() then closes the others depends on how it failed.
CycleFails(k) ==
  /\ simulations[k].pc = "report"
  /\ \E l \in Links : Dead(simulations[k].links[l])
  /\ Step(k, "failed", 0)
  /\ closed' \in {closed, closed \cup Conns(simulations[k].links)}
  /\ UNCHANGED <<runs, ports, tables, results, ended, crashed>>

(* The test cases are over: ErrorHandler::send_message().  They take some  *)
(* hundred milliseconds, by when the error thread has accepted what there  *)
(* was to accept (PromptAccept).                                           *)
PromptAccept == error_backlog = <<>>

Report(k) ==
  LET stream == streams[simulations[k].ip] IN
  /\ simulations[k].pc = "report" /\ PromptAccept
  /\ IF stream = NoStream
       THEN crashed' = TRUE /\ UNCHANGED <<simulations, results>>
       ELSE /\ results' = results \cup {<<k, stream>>}
            /\ Step(k, "tell", 0)
            /\ UNCHANGED crashed
  /\ UNCHANGED <<runs, ports, tables, ended, closed>>

\* Mutation: the result stream goes with the simulation.
TellForgets(k) ==
  LET conns == Conns(simulations[k].links) IN
  /\ simulations[k].pc = "tell"
  /\ ended' = ended \cup conns /\ closed' = closed \cup conns
  /\ Step(k, "over", 0)
  /\ streams' = [streams EXCEPT ![simulations[k].ip] = NoStream]
  /\ UNCHANGED <<runs, ports, connections, results, crashed>>

\* ERR or END on every link, then the link threads end.
Tell(k) ==
  LET conns == Conns(simulations[k].links) IN
  /\ simulations[k].pc = "tell"
  /\ ended' = ended \cup conns /\ closed' = closed \cup conns
  /\ Step(k, "over", 0)
  /\ UNCHANGED <<runs, ports, tables, results, crashed>>

Simulate(k) == Validate(k) \/ ValidateFails(k) \/ CycleFails(k) \/ Report(k) \/ Tell(k)

-----------------------------------------------------------------------------
Next ==
  \/ \E r \in Routers : RouterStart(r) \/ Router(r) \/ RouterDie(r)
  \/ /\ ~crashed
     /\ \/ ErrorAccept
        \/ \E l \in Links : LinkAccept(l)
        \/ \E k \in DOMAIN simulations : Simulate(k)

Spec == Init /\ [][Next]_vars

\* A run opens one connection per link, and a simulation takes as many.
Slots == 1 .. Cardinality(Routers)

\* Routers run, listeners accept and simulations proceed; nobody has to
\* start or to die.
FairSpec ==
  /\ Spec
  /\ \A r \in Routers : WF_vars(Router(r))
  /\ WF_vars(~crashed /\ ErrorAccept)
  /\ \A l \in Links : WF_vars(~crashed /\ LinkAccept(l))
  /\ \A k \in Slots : WF_vars(~crashed /\ k \in DOMAIN simulations /\ Simulate(k))
=============================================================================
