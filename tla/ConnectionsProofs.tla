-------------------------- MODULE ConnectionsProofs --------------------------
(***************************************************************************)
(* netsim survives every number of routers, at any addresses, however      *)
(* often they die, are run again or share an address; and at an address    *)
(* whose runs follow one another, the run that connects is the run that is *)
(* simulated, the run that gets the results, and keeps its links until ERR *)
(* or END.                                                                 *)
(***************************************************************************)
EXTENDS ConnectionsProps, SequenceTheorems, FiniteSetTheorems, TLAPS

\* Somebody behind ip has begun to connect.
Known(ip) == \E r \in Routers : router[r].pc # "off" /\ IpOf[r] = ip

\* Who has begun to connect has a stream in the table, if only an earlier
\* run's, or waits at the error port; and only such a run waits at a link
\* port, has a connection in the table or is simulated.
IInv ==
  /\ TypeOK
  /\ \A r \in Routers :
       router[r].pc # "off" =>
         streams[IpOf[r]] # NoStream \/ \E n \in 1 .. Len(error_backlog) : error_backlog[n] = r
  /\ \A l \in Links : \A n \in 1 .. Len(backlog[l]) : router[backlog[l][n]].pc # "off"
  /\ \A k \in 1 .. Len(simulations) : Known(simulations[k].ip)
  /\ ~crashed

-----------------------------------------------------------------------------
(* Types. *)

Simulated == [ip : Ips, links : [Links -> Routers \cup {NoStream}], i : Links,
              pc : {"validate", "panicked", "failed", "report", "tell", "over"}]
Place     == [pc : {"off", "link", "id", "run", "done", "dead"}, i : Links]

LEMMA LinkFacts == 0 \in Links /\ \A i \in Links : i \in Nat /\ (i + 1 < ROUTER_LINK_COUNT => i + 1 \in Links)
BY RouterAssumption DEF Links

LEMMA ConnsType ==
  ASSUME NEW links \in [Links -> Routers \cup {NoStream}]
  PROVE  Conns(links) \subseteq Routers \X Links
BY DEF Conns

LEMMA StepType ==
  ASSUME TypeOK, NEW k \in DOMAIN simulations, NEW i \in Links,
         NEW pc \in {"validate", "panicked", "failed", "report", "tell", "over"}, Step(k, pc, i)
  PROVE  /\ simulations' \in Seq(Simulated) /\ Len(simulations') = Len(simulations)
         /\ \A n \in 1 .. Len(simulations) : simulations'[n].ip = simulations[n].ip
<1>1. simulations \in Seq(Simulated)
  BY DEF TypeOK, Simulated
<1>2. simulations[k] \in Simulated
  BY <1>1, ElementOfSeq
<1>3. [simulations[k] EXCEPT !.pc = pc, !.i = i] \in Simulated
  BY <1>2 DEF Simulated
<1>4. simulations' = [simulations EXCEPT ![k] = [simulations[k] EXCEPT !.pc = pc, !.i = i]]
  BY DEF Step
<1>5. simulations' \in Seq(Simulated) /\ Len(simulations') = Len(simulations)
  BY <1>1, <1>3, <1>4, ExceptSeq
<1>6. \A n \in 1 .. Len(simulations) : simulations'[n].ip = simulations[n].ip
  BY <1>1, <1>4, <1>2 DEF Simulated
<1> QED
  BY <1>5, <1>6

LEMMA GotoType ==
  ASSUME TypeOK, NEW r \in Routers, NEW pc \in {"off", "link", "id", "run", "done", "dead"},
         NEW i \in Links, Goto(r, pc, i)
  PROVE  /\ router' \in [Routers -> Place]
         /\ router'[r].pc = pc /\ \A q \in Routers \ {r} : router'[q] = router[q]
BY DEF TypeOK, Goto, Place

LEMMA NextLinkType ==
  ASSUME TypeOK, NEW r \in Routers, NextLink(r, router[r].i + 1)
  PROVE  /\ router' \in [Routers -> Place]
         /\ router'[r].pc # "off" /\ \A q \in Routers \ {r} : router'[q] = router[q]
<1>1. router[r].i \in Links
  BY DEF TypeOK
<1>2. CASE router[r].i + 1 < ROUTER_LINK_COUNT
  <2>1. router[r].i + 1 \in Links /\ Goto(r, "link", router[r].i + 1)
    BY <1>1, <1>2, LinkFacts DEF NextLink
  <2> QED
    BY <2>1, GotoType
<1>3. CASE ~ (router[r].i + 1 < ROUTER_LINK_COUNT)
  BY <1>3, GotoType, LinkFacts DEF NextLink
<1> QED
  BY <1>2, <1>3

-----------------------------------------------------------------------------
(* Steps of a router. *)

\* A run that has begun goes on.
LEMMA RouterGoesOn ==
  ASSUME IInv, NEW r \in Routers, router[r].pc # "off",
         router' \in [Routers -> Place], router'[r].pc # "off",
         \A q \in Routers \ {r} : router'[q] = router[q],
         ids' \subseteq Routers \X Links,
         UNCHANGED <<overlapped, ports, tables, simulations, ends, crashed>>
  PROVE  IInv'
<1>1. TypeOK'
  BY DEF IInv, TypeOK, ports, tables, ends, Place
<1>2. \A q \in Routers : router'[q].pc # "off" <=> router[q].pc # "off"
  OBVIOUS
<1>3. \A l \in Links : \A n \in 1 .. Len(backlog[l]) : router'[backlog[l][n]].pc # "off"
  <2> TAKE l \in Links
  <2> TAKE n \in 1 .. Len(backlog[l])
  <2>1. backlog[l][n] \in Routers
    BY ElementOfSeq DEF IInv, TypeOK
  <2> QED
    BY <1>2, <2>1 DEF IInv
<1> QED
  BY <1>1, <1>2, <1>3 DEF IInv, ports, tables, ends, Known

LEMMA StartInv == ASSUME IInv, NEW r \in Routers, RouterStart(r) PROVE IInv'
<1> DEFINE queue == Append(error_backlog, r)
<1>0. error_backlog \in Seq(Routers)
  BY DEF IInv, TypeOK
<1>1. /\ queue \in Seq(Routers) /\ Len(queue) = Len(error_backlog) + 1
      /\ queue[Len(queue)] = r /\ Len(error_backlog) \in Nat
      /\ \A n \in 1 .. Len(error_backlog) : queue[n] = error_backlog[n]
  BY <1>0, AppendProperties, LenProperties
<1>2. /\ router' \in [Routers -> Place] /\ router'[r].pc = "link"
      /\ \A q \in Routers \ {r} : router'[q] = router[q]
  BY GotoType, LinkFacts DEF RouterStart, IInv
<1>3. TypeOK'
  <2>1. error_backlog' \in Seq(Routers) /\ overlapped' \subseteq Ips
    BY <1>1, RouterAssumption DEF RouterStart, IInv, TypeOK
  <2>2. UNCHANGED <<ids, backlog, streams, connections, simulations, results, ended, closed, crashed>>
    BY DEF RouterStart, tables, ends
  <2> QED
    BY <1>2, <2>1, <2>2 DEF IInv, TypeOK, Place
<1>4. ASSUME NEW q \in Routers, router'[q].pc # "off"
      PROVE  streams[IpOf[q]] # NoStream \/ \E n \in 1 .. Len(queue) : queue[n] = q
  <2>1. CASE q = r
    BY <1>1, <2>1
  <2>2. CASE q # r
    BY <1>1, <1>2, <1>4, <2>2 DEF IInv
  <2> QED
    BY <2>1, <2>2
<1>5. \A q \in Routers : router[q].pc # "off" => router'[q].pc # "off"
  BY <1>2
<1>6. \A l \in Links : \A n \in 1 .. Len(backlog[l]) : router'[backlog[l][n]].pc # "off"
  <2> TAKE l \in Links
  <2> TAKE n \in 1 .. Len(backlog[l])
  <2>1. backlog[l][n] \in Routers
    BY ElementOfSeq DEF IInv, TypeOK
  <2> QED
    BY <1>5, <2>1 DEF IInv
<1> QED
  BY <1>3, <1>4, <1>5, <1>6 DEF RouterStart, IInv, tables, ends, Known

LEMMA ConnectInv == ASSUME IInv, NEW r \in Routers, RouterConnect(r) PROVE IInv'
<1> DEFINE i     == router[r].i
           queue == Append(backlog[i], r)
<1>0. i \in Links /\ router[r].pc = "link"
  BY DEF RouterConnect, At, IInv, TypeOK
<1>1. /\ backlog[i] \in Seq(Routers) /\ queue \in Seq(Routers) /\ Len(queue) = Len(backlog[i]) + 1
      /\ queue[Len(queue)] = r /\ Len(backlog[i]) \in Nat
      /\ \A n \in 1 .. Len(backlog[i]) : queue[n] = backlog[i][n]
  BY <1>0, AppendProperties, LenProperties DEF IInv, TypeOK
<1>2. /\ router' \in [Routers -> Place] /\ router'[r].pc = "id"
      /\ \A q \in Routers \ {r} : router'[q] = router[q]
  BY <1>0, GotoType DEF RouterConnect, IInv
<1> HIDE DEF i, queue
<1>3. backlog' = [backlog EXCEPT ![i] = queue]
  BY DEF RouterConnect, i, queue
<1>4. TypeOK'
  <2>1. backlog' \in [Links -> Seq(Routers)]
    BY <1>1, <1>3 DEF IInv, TypeOK
  <2>2. UNCHANGED <<overlapped, ids, error_backlog, streams, connections, simulations,
                    results, ended, closed, crashed>>
    BY DEF RouterConnect, tables, ends
  <2> QED
    BY <1>2, <2>1, <2>2 DEF IInv, TypeOK, Place
<1>5. \A q \in Routers : router[q].pc # "off" <=> router'[q].pc # "off"
  BY <1>0, <1>2
<1>6. ASSUME NEW l \in Links, NEW n \in 1 .. Len(backlog'[l])
      PROVE  router'[backlog'[l][n]].pc # "off"
  <2>1. CASE l = i
    <3>1. backlog'[l] = queue
      BY <1>3, <2>1 DEF IInv, TypeOK
    <3>2. CASE n = Len(queue)
      BY <1>1, <1>2, <3>1, <3>2
    <3>3. CASE n # Len(queue)
      <4>1. n \in 1 .. Len(backlog[i])
        BY <1>1, <1>6, <3>1, <3>3
      <4>2. backlog'[l][n] = backlog[i][n] /\ backlog[i][n] \in Routers
        BY <1>1, <3>1, <4>1, ElementOfSeq
      <4> QED
        BY <1>0, <1>5, <4>1, <4>2 DEF IInv, i
    <3> QED
      BY <3>2, <3>3
  <2>2. CASE l # i
    <3>1. backlog'[l] = backlog[l] /\ backlog[l] \in Seq(Routers)
      BY <1>3, <2>2 DEF IInv, TypeOK
    <3>2. backlog[l][n] \in Routers
      BY <1>6, <3>1, ElementOfSeq
    <3> QED
      BY <1>5, <1>6, <3>1, <3>2 DEF IInv
  <2> QED
    BY <2>1, <2>2
<1> QED
  BY <1>4, <1>5, <1>6 DEF RouterConnect, IInv, tables, ends, Known

LEMMA RouterInv == ASSUME IInv, NEW r \in Routers, Router(r) \/ RouterDie(r) PROVE IInv'
<1>0. TypeOK /\ router[r].i \in Links
  BY DEF IInv, TypeOK
<1>1. CASE RouterConnect(r)
  BY <1>1, ConnectInv
<1>2. CASE RouterIdentify(r)
  <2>1. router[r].pc # "off" /\ ids' \subseteq Routers \X Links
    BY <1>0, <1>2 DEF RouterIdentify, At, TypeOK
  <2>2. /\ router' \in [Routers -> Place] /\ router'[r].pc # "off"
        /\ \A q \in Routers \ {r} : router'[q] = router[q]
    BY <1>0, <1>2, NextLinkType DEF RouterIdentify
  <2> QED
    BY <1>2, <2>1, <2>2, RouterGoesOn DEF RouterIdentify
<1>3. CASE RouterEnd(r) \/ RouterCutOff(r) \/ RouterDie(r)
  <2>1. router[r].pc # "off" /\ UNCHANGED <<overlapped, ids, ports, tables, simulations, ends, crashed>>
    BY <1>3 DEF RouterEnd, RouterCutOff, RouterDie, At, Active
  <2>2. Goto(r, "done", 0) \/ Goto(r, "dead", 0)
    BY <1>3 DEF RouterEnd, RouterCutOff, RouterDie
  <2>3. /\ router' \in [Routers -> Place] /\ router'[r].pc # "off"
        /\ \A q \in Routers \ {r} : router'[q] = router[q]
    BY <1>0, <2>2, GotoType, LinkFacts
  <2> QED
    BY <1>0, <2>1, <2>3, RouterGoesOn DEF TypeOK
<1> QED
  BY <1>1, <1>2, <1>3 DEF Router

-----------------------------------------------------------------------------
(* Steps of netsim. *)

\* Whoever waits at the head of the error port gets the entry of his
\* address, which only replaces a stream by a stream.
LEMMA ErrorAcceptInv == ASSUME IInv, ErrorAccept PROVE IInv'
<1> DEFINE r == Head(error_backlog)
<1>1. /\ r \in Routers /\ r = error_backlog[1]
      /\ Tail(error_backlog) \in Seq(Routers) /\ Len(Tail(error_backlog)) = Len(error_backlog) - 1
      /\ \A n \in 1 .. Len(Tail(error_backlog)) : Tail(error_backlog)[n] = error_backlog[n + 1]
      /\ Len(error_backlog) \in Nat
  BY HeadTailProperties, LenProperties DEF ErrorAccept, IInv, TypeOK
<1> HIDE DEF r
<1>2. streams' = [streams EXCEPT ![IpOf[r]] = r] /\ r # NoStream /\ IpOf[r] \in Ips
  BY <1>1, RouterAssumption DEF ErrorAccept, Inserted, r
<1>3. TypeOK'
  BY <1>1, <1>2 DEF ErrorAccept, IInv, TypeOK, runs, ends
<1>4. ASSUME NEW q \in Routers, router[q].pc # "off"
      PROVE  \/ streams'[IpOf[q]] # NoStream
             \/ \E n \in 1 .. Len(Tail(error_backlog)) : Tail(error_backlog)[n] = q
  <2>1. CASE streams[IpOf[q]] # NoStream \/ q = r
    BY <1>2, <2>1, RouterAssumption DEF IInv, TypeOK
  <2>2. CASE q # r /\ \E n \in 1 .. Len(error_backlog) : error_backlog[n] = q
    <3>1. PICK n \in 1 .. Len(error_backlog) : error_backlog[n] = q
      BY <2>2
    <3>2. n - 1 \in 1 .. Len(Tail(error_backlog)) /\ (n - 1) + 1 = n
      BY <1>1, <2>2, <3>1
    <3> QED
      BY <1>1, <3>1, <3>2
  <2> QED
    BY <1>4, <2>1, <2>2 DEF IInv
<1> QED
  BY <1>3, <1>4 DEF ErrorAccept, IInv, runs, ends, Known

\* The entry of an address is never full: the last connection removes it.
LEMMA LinkAcceptInv == ASSUME IInv, NEW l \in Links, LinkAccept(l) PROVE IInv'
<1> DEFINE r     == Head(backlog[l])
           ip    == IpOf[r]
           old   == connections[ip]
           entry == [conn_count |-> old.conn_count + 1, conn_vec |-> [old.conn_vec EXCEPT ![l] = r]]
           rest  == Tail(backlog[l])
           Vec   == [Links -> Routers \cup {NoStream}]
<1>1. /\ backlog[l] \in Seq(Routers) /\ backlog[l] # <<>> /\ r \in Routers /\ r = backlog[l][1]
      /\ rest \in Seq(Routers) /\ Len(rest) = Len(backlog[l]) - 1
      /\ \A n \in 1 .. Len(rest) : rest[n] = backlog[l][n + 1]
      /\ Len(backlog[l]) \in Nat /\ Len(backlog[l]) > 0
  <2>1. backlog[l] \in Seq(Routers) /\ backlog[l] # <<>>
    BY DEF LinkAccept, IInv, TypeOK
  <2> QED
    BY <2>1, HeadTailProperties, LenProperties, EmptySeq
<1>2. /\ ip \in Ips /\ old.conn_count \in 0 .. ROUTER_LINK_COUNT - 1 /\ old.conn_vec \in Vec
      /\ ROUTER_LINK_COUNT \in Nat \ {0}
  BY <1>1, RouterAssumption DEF IInv, TypeOK
<1>3. /\ backlog' = [backlog EXCEPT ![l] = rest]
      /\ connections' = [connections EXCEPT ![ip] = IF Full(entry) THEN NoEntry ELSE entry]
      /\ simulations' = IF Full(entry) THEN Append(simulations, Simulation(ip, entry.conn_vec))
                        ELSE simulations
      /\ closed' \subseteq closed \cup {<<old.conn_vec[l], l>>} \cup Conns(entry.conn_vec)
      /\ old.conn_vec[l] = NoStream => closed' \subseteq closed \cup Conns(entry.conn_vec)
      /\ UNCHANGED <<router, overlapped, ids, error_backlog, streams, results, ended, crashed>>
  BY DEF LinkAccept, Removed, runs
<1> HIDE DEF r, ip, old, rest
<1>4. entry.conn_vec \in Vec /\ entry.conn_count = old.conn_count + 1
  BY <1>1, <1>2
<1> HIDE DEF entry
<1>5. connections' \in [Ips -> [conn_count : 0 .. ROUTER_LINK_COUNT - 1, conn_vec : Vec]]
  <2>1. NoEntry \in [conn_count : 0 .. ROUTER_LINK_COUNT - 1, conn_vec : Vec]
    BY <1>2 DEF NoEntry
  <2>2. ASSUME ~Full(entry) PROVE entry \in [conn_count : 0 .. ROUTER_LINK_COUNT - 1, conn_vec : Vec]
    BY <1>2, <1>4, <2>2 DEF Full, entry
  <2>3. connections \in [Ips -> [conn_count : 0 .. ROUTER_LINK_COUNT - 1, conn_vec : Vec]]
    BY DEF IInv, TypeOK
  <2> HIDE DEF Vec
  <2> QED
    BY <1>3, <2>1, <2>2, <2>3
<1>6. /\ simulations' \in Seq(Simulated) /\ Len(simulations) \in Nat
      /\ Len(simulations') >= Len(simulations)
      /\ \A k \in 1 .. Len(simulations') :
           simulations'[k].ip = ip \/ (k \in 1 .. Len(simulations) /\ simulations'[k] = simulations[k])
  <2>1. simulations \in Seq(Simulated)
    BY DEF IInv, TypeOK, Simulated
  <2>2. Simulation(ip, entry.conn_vec) \in Simulated /\ Simulation(ip, entry.conn_vec).ip = ip
    BY <1>2, <1>4, LinkFacts DEF Simulation, Simulated
  <2> QED
    BY <1>3, <2>1, <2>2, AppendProperties, LenProperties
<1>7. closed' \subseteq Routers \X Links
  <2>1. Conns(entry.conn_vec) \subseteq Routers \X Links /\ closed \subseteq Routers \X Links
    BY <1>4, ConnsType DEF IInv, TypeOK
  <2>2. old.conn_vec[l] \in Routers \cup {NoStream}
    BY <1>2
  <2> QED
    BY <1>3, <2>1, <2>2
<1>8. results' \subseteq (DOMAIN simulations') \X Routers
  <2>1. DOMAIN simulations = 1 .. Len(simulations) /\ DOMAIN simulations' = 1 .. Len(simulations')
    BY <1>6, LenProperties DEF IInv, TypeOK
  <2>2. DOMAIN simulations \subseteq DOMAIN simulations'
    BY <1>6, <2>1, LenProperties
  <2> QED
    BY <1>3, <2>2 DEF IInv, TypeOK
<1>9. TypeOK'
  <2>1. backlog' \in [Links -> Seq(Routers)]
    BY <1>1, <1>3 DEF IInv, TypeOK
  <2> QED
    BY <1>3, <1>5, <1>6, <1>7, <1>8, <2>1 DEF IInv, TypeOK, Simulated
<1>10. ASSUME NEW m \in Links, NEW n \in 1 .. Len(backlog'[m])
       PROVE  router[backlog'[m][n]].pc # "off"
  <2>1. CASE m = l
    <3>1. backlog'[m] = rest /\ n \in 1 .. Len(rest)
      BY <1>3, <1>10, <2>1 DEF IInv, TypeOK
    <3>2. n + 1 \in 1 .. Len(backlog[l]) /\ rest[n] = backlog[l][n + 1]
      BY <1>1, <3>1
    <3> QED
      BY <3>1, <3>2 DEF IInv
  <2>2. CASE m # l
    BY <1>3, <1>10, <2>2 DEF IInv, TypeOK
  <2> QED
    BY <2>1, <2>2
<1>11. Known(ip)
  <2>1. router[r].pc # "off"
    BY <1>1 DEF IInv
  <2> QED
    BY <1>1, <2>1 DEF Known, ip
<1>12. \A k \in 1 .. Len(simulations') : Known(simulations'[k].ip)
  BY <1>6, <1>11 DEF IInv
<1> QED
  BY <1>3, <1>9, <1>10, <1>12 DEF IInv, Known

\* A simulation that goes on.
LEMMA SimulationGoesOn ==
  ASSUME IInv, simulations' \in Seq(Simulated), Len(simulations') = Len(simulations),
         \A n \in 1 .. Len(simulations) : simulations'[n].ip = simulations[n].ip,
         results' \subseteq (DOMAIN simulations) \X Routers,
         ended' \subseteq Routers \X Links, closed' \subseteq Routers \X Links,
         UNCHANGED <<runs, ports, tables, crashed>>
  PROVE  IInv'
<1>1. DOMAIN simulations' = DOMAIN simulations
  BY LenProperties DEF IInv, TypeOK
<1>2. TypeOK'
  BY <1>1 DEF IInv, TypeOK, Simulated, runs, ports, tables
<1> QED
  BY <1>2 DEF IInv, Known, runs, ports, tables

LEMMA SimulateInv == ASSUME IInv, NEW k \in DOMAIN simulations, Simulate(k) PROVE IInv'
<1>0. /\ TypeOK /\ DOMAIN simulations = 1 .. Len(simulations)
      /\ results \subseteq (DOMAIN simulations) \X Routers
      /\ ended \subseteq Routers \X Links /\ closed \subseteq Routers \X Links
  BY LenProperties DEF IInv, TypeOK
<1>1. /\ simulations \in Seq(Simulated) /\ simulations[k] \in Simulated
      /\ Conns(simulations[k].links) \subseteq Routers \X Links
  <2>1. simulations \in Seq(Simulated) /\ simulations[k] \in Simulated
    BY <1>0, ElementOfSeq DEF TypeOK, Simulated
  <2> QED
    BY <2>1, ConnsType DEF Simulated
<1>2. CASE Validate(k)
  <2>1. simulations[k].i \in Links
    BY <1>1 DEF Simulated
  <2>2. CASE simulations[k].i + 1 < ROUTER_LINK_COUNT
    <3>1. simulations[k].i + 1 \in Links /\ Step(k, "validate", simulations[k].i + 1)
      BY <1>2, <2>1, <2>2, LinkFacts DEF Validate
    <3> QED
      BY <1>0, <1>2, <3>1, StepType, SimulationGoesOn DEF Validate, ends
  <2>3. CASE ~ (simulations[k].i + 1 < ROUTER_LINK_COUNT)
    <3>1. Step(k, "report", 0)
      BY <1>2, <2>3 DEF Validate
    <3> QED
      BY <1>0, <1>2, <3>1, StepType, LinkFacts, SimulationGoesOn DEF Validate, ends
  <2> QED
    BY <2>2, <2>3
<1>3. CASE ValidateFails(k) \/ CycleFails(k) \/ Tell(k)
  <2>1. Step(k, "failed", 0) \/ Step(k, "over", 0)
    BY <1>3 DEF ValidateFails, CycleFails, Tell
  <2>2. /\ ended' \subseteq Routers \X Links /\ closed' \subseteq Routers \X Links
        /\ UNCHANGED <<runs, ports, tables, results, crashed>>
    BY <1>0, <1>1, <1>3 DEF ValidateFails, CycleFails, Tell
  <2> QED
    BY <1>0, <2>1, <2>2, StepType, LinkFacts, SimulationGoesOn
<1>4. CASE Report(k)
  <2> DEFINE ip == simulations[k].ip
  <2>1. error_backlog = <<>> /\ Len(error_backlog) = 0
    BY <1>4 DEF Report, PromptAccept
  <2>2. PICK r \in Routers : router[r].pc # "off" /\ IpOf[r] = ip
    BY <1>0 DEF IInv, Known
  <2>3. streams[ip] # NoStream /\ streams[ip] \in Routers
    <3>1. ~ \E n \in 1 .. Len(error_backlog) : error_backlog[n] = r
      BY <2>1
    <3>2. streams[ip] # NoStream
      BY <2>2, <3>1 DEF IInv
    <3> QED
      BY <1>1, <3>2 DEF IInv, TypeOK, Simulated
  <2>4. /\ results' = results \cup {<<k, streams[ip]>>} /\ Step(k, "tell", 0)
        /\ UNCHANGED <<runs, ports, tables, ended, closed, crashed>>
    BY <1>4, <2>3 DEF Report
  <2> QED
    BY <1>0, <2>3, <2>4, StepType, LinkFacts, SimulationGoesOn
<1> QED
  BY <1>2, <1>3, <1>4 DEF Simulate

-----------------------------------------------------------------------------
(* The theorems. *)

LEMMA InitInv == Init => IInv
<1> SUFFICES ASSUME Init PROVE IInv
  OBVIOUS
<1>1. router \in [Routers -> [pc : {"off", "link", "id", "run", "done", "dead"}, i : Links]]
  BY LinkFacts DEF Init
<1>2. NoEntry \in [conn_count : 0 .. ROUTER_LINK_COUNT - 1,
                   conn_vec : [Links -> Routers \cup {NoStream}]]
  BY RouterAssumption DEF NoEntry
<1>3. <<>> \in Seq(Routers)
  OBVIOUS
<1>4. error_backlog \in Seq(Routers) /\ backlog \in [Links -> Seq(Routers)]
  BY <1>3, Zenon DEF Init
<1>5. /\ streams \in [Ips -> Routers \cup {NoStream}]
      /\ overlapped \subseteq Ips /\ ids \subseteq Routers \X Links
      /\ ended \subseteq Routers \X Links /\ closed \subseteq Routers \X Links
      /\ results \subseteq (DOMAIN simulations) \X Routers /\ crashed \in BOOLEAN
  BY DEF Init
<1>6. simulations \in Seq([ip : Ips, links : [Links -> Routers \cup {NoStream}], i : Links,
                          pc : {"validate", "panicked", "failed", "report", "tell", "over"}])
  BY DEF Init
<1>7. connections \in [Ips -> [conn_count : 0 .. ROUTER_LINK_COUNT - 1,
                               conn_vec : [Links -> Routers \cup {NoStream}]]]
  BY <1>2 DEF Init
<1>8. TypeOK
  BY <1>1, <1>4, <1>6, <1>7, <1>5 DEF TypeOK
<1> QED
  BY <1>8 DEF Init, IInv

LEMMA StepInv == IInv /\ [Next]_vars => IInv'
<1> SUFFICES ASSUME IInv, [Next]_vars PROVE IInv'
  OBVIOUS
<1>1. CASE UNCHANGED vars
  BY <1>1 DEF vars, runs, ports, tables, ends, IInv, TypeOK, Known
<1>2. ASSUME NEW r \in Routers, RouterStart(r) \/ Router(r) \/ RouterDie(r) PROVE IInv'
  BY <1>2, StartInv, RouterInv
<1>3. CASE ErrorAccept
  BY <1>3, ErrorAcceptInv
<1>4. ASSUME NEW l \in Links, LinkAccept(l) PROVE IInv'
  BY <1>4, LinkAcceptInv
<1>5. ASSUME NEW k \in DOMAIN simulations, Simulate(k) PROVE IInv'
  BY <1>5, SimulateInv
<1> QED
  BY <1>1, <1>2, <1>3, <1>4, <1>5 DEF Next

LEMMA Invariance == Spec => []IInv
BY InitInv, StepInv, PTL DEF Spec

\* The tables of netsim and the routers' places stay within their types; in
\* particular conn_count never reaches ROUTER_LINK_COUNT in the table.
THEOREM TypeCorrect == Spec => []TypeOK
<1>1. IInv => TypeOK
  BY DEF IInv
<1> QED
  BY <1>1, Invariance, PTL

\* send_message() never ends netsim with "error stream does not exist", for
\* any number of routers, addresses and deaths.
THEOREM NetsimAlwaysUp == Spec => []NetsimStaysUp
<1>1. IInv => NetsimStaysUp
  BY DEF IInv, NetsimStaysUp
<1> QED
  BY <1>1, Invariance, PTL

-----------------------------------------------------------------------------
(* Addresses in good use.  Where the connections of a run are, and which    *)
(* run the stream of an address belongs to.                                *)

\* Link l of run r has been connected; its connection waits to be accepted,
\* or is in the table; all its connections went to a simulation.
Made(r, l)    == \/ router[r].pc = "link" /\ l < router[r].i
                 \/ router[r].pc = "id" /\ l <= router[r].i
                 \/ router[r].pc \in {"run", "done"}
Waiting(r, l) == \E n \in 1 .. Len(backlog[l]) : backlog[l][n] = r
Kept(r, l)    == connections[IpOf[r]].conn_vec[l] = r
All(r)        == [l \in Links |-> r]
Taken(r)      == \E k \in 1 .. Len(simulations) : simulations[k].links = All(r)

\* Connections are kept under the address of their run, and ERR or END went
\* out on those of a simulation that is over.
TableOwn ==
  \A ip \in Ips, l \in Links, r \in Routers :
    connections[ip].conn_vec[l] = r => IpOf[r] = ip
LinksOwn ==
  \A k \in 1 .. Len(simulations), l \in Links, r \in Routers :
    simulations[k].links[l] = r => IpOf[r] = simulations[k].ip
EndedOver ==
  \A r \in Routers, l \in Links :
    <<r, l>> \in ended =>
      \E k \in 1 .. Len(simulations) : simulations[k].links[l] = r /\ simulations[k].pc = "over"
DoneEnded ==
  \A r \in Routers : router[r].pc = "done" => \A l \in Links : <<r, l>> \in ended
OwnInv == TableOwn /\ LinksOwn /\ EndedOver /\ DoneEnded

\* One run after the other.
TurnInv(ip) ==
  \A q, r \in Routers : IpOf[q] = ip /\ IpOf[r] = ip /\ Active(q) /\ Active(r) => q = r

\* A connection is in one place only, and counted there.
PlaceInv(ip) ==
  /\ \A r \in Routers, l \in Links :
       IpOf[r] = ip =>
         /\ Waiting(r, l) => Made(r, l) /\ ~Kept(r, l) /\ ~Taken(r)
         /\ Kept(r, l) => Made(r, l) /\ ~Taken(r)
         /\ Taken(r) => Made(r, l)
         /\ \A m, n \in 1 .. Len(backlog[l]) : backlog[l][m] = r /\ backlog[l][n] = r => m = n
  /\ connections[ip].conn_count =
       Cardinality({l \in Links : connections[ip].conn_vec[l] # NoStream})

\* Simulations have the links of one run each, and no run has two.
WholeInv(ip) ==
  /\ \A k \in 1 .. Len(simulations) :
       simulations[k].ip = ip => \E r \in Routers : simulations[k].links = All(r)
  /\ \A j, k \in 1 .. Len(simulations) :
       simulations[j].ip = ip /\ simulations[k].ip = ip /\ simulations[j].links = simulations[k].links
         => j = k

\* Run r was the last to connect to the error port from ip.
Latest(ip, r) ==
  \/ /\ streams[ip] = r
     /\ \A n \in 1 .. Len(error_backlog) : IpOf[error_backlog[n]] # ip
  \/ \E n \in 1 .. Len(error_backlog) :
       /\ error_backlog[n] = r
       /\ \A m \in n + 1 .. Len(error_backlog) : IpOf[error_backlog[m]] # ip

LatestInv(ip) == \A r \in Routers : IpOf[r] = ip /\ Active(r) => Latest(ip, r)

\* Results went to the run whose links are simulated.
ResultInv(ip) ==
  \A k \in 1 .. Len(simulations), r \in Routers :
    simulations[k].ip = ip /\ <<k, r>> \in results => simulations[k].links = All(r)

ClosedInv(ip) ==
  \A r \in Routers, l \in Links : IpOf[r] = ip /\ <<r, l>> \in closed => <<r, l>> \in ended

InUseInv(ip) ==
  /\ TurnInv(ip) /\ PlaceInv(ip) /\ WholeInv(ip)
  /\ LatestInv(ip) /\ ResultInv(ip) /\ ClosedInv(ip)

GoodInv == \A ip \in Ips : Good(ip) => InUseInv(ip)

-----------------------------------------------------------------------------
(* What the steps do. *)

LEMMA Typed ==
  ASSUME IInv
  PROVE  /\ TypeOK /\ simulations \in Seq(Simulated) /\ Len(simulations) \in Nat
         /\ DOMAIN simulations = 1 .. Len(simulations)
         /\ \A k \in 1 .. Len(simulations) : simulations[k] \in Simulated
         /\ \A l \in Links : /\ backlog[l] \in Seq(Routers) /\ Len(backlog[l]) \in Nat
                             /\ \A n \in 1 .. Len(backlog[l]) : backlog[l][n] \in Routers
         /\ error_backlog \in Seq(Routers) /\ Len(error_backlog) \in Nat
         /\ \A n \in 1 .. Len(error_backlog) : error_backlog[n] \in Routers
<1>1. TypeOK /\ simulations \in Seq(Simulated) /\ error_backlog \in Seq(Routers)
      /\ backlog \in [Links -> Seq(Routers)]
  BY DEF IInv, TypeOK, Simulated
<1> QED
  BY <1>1, ElementOfSeq, LenProperties

\* Addresses do not become good again.
LEMMA GoodStays ==
  ASSUME IInv, [Next]_vars, NEW ip \in Ips, Good(ip)'
  PROVE  Good(ip)
<1>1. overlapped \subseteq overlapped'
  BY DEF Next, vars, runs, RouterStart, Router, RouterConnect, RouterIdentify, RouterEnd,
         RouterCutOff, RouterDie, ErrorAccept, LinkAccept, Simulate, Validate, ValidateFails,
         CycleFails, Report, Tell
<1>2. ASSUME NEW r \in Routers, Dead(r)
      PROVE  Dead(r)'
  <2>1. router[r].pc = "dead" /\ router \in [Routers -> Place]
    BY <1>2 DEF Dead, At, IInv, TypeOK, Place
  <2>2. ASSUME NEW q \in Routers, RouterStart(q) \/ Router(q) \/ RouterDie(q)
        PROVE  router'[r] = router[r]
    BY <2>1, <2>2 DEF RouterStart, Router, RouterConnect, RouterIdentify, RouterEnd,
         RouterCutOff, RouterDie, At, Active, Goto, NextLink
  <2>3. CASE UNCHANGED router
    BY <2>1, <2>3 DEF Dead, At
  <2> QED
    BY <2>1, <2>2, <2>3 DEF Next, vars, runs, ErrorAccept, LinkAccept, Simulate, Validate,
         ValidateFails, CycleFails, Report, Tell, Dead, At
<1> QED
  BY <1>1, <1>2 DEF Good

\* A simulation keeps its address and its links; one that is over stays so.
LEMMA SimulateEffect ==
  ASSUME IInv, NEW k \in DOMAIN simulations, Simulate(k)
  PROVE  /\ k \in 1 .. Len(simulations) /\ Len(simulations') = Len(simulations)
         /\ simulations[k].pc \in {"validate", "report", "tell"}
         /\ \A n \in 1 .. Len(simulations) :
              /\ simulations'[n].ip = simulations[n].ip
              /\ simulations'[n].links = simulations[n].links
              /\ simulations[n].pc = "over" => simulations'[n].pc = "over"
         /\ UNCHANGED <<runs, ports, tables>>
         /\ Tell(k) => simulations'[k].pc = "over"
<1>1. /\ simulations \in Seq(Simulated) /\ simulations[k] \in Simulated
      /\ DOMAIN simulations = 1 .. Len(simulations) /\ Len(simulations) \in Nat
  BY Typed
<1>2. ASSUME NEW pc, NEW i, Step(k, pc, i)
      PROVE  /\ Len(simulations') = Len(simulations)
             /\ simulations'[k].pc = pc
             /\ \A n \in 1 .. Len(simulations) :
                  /\ simulations'[n].ip = simulations[n].ip
                  /\ simulations'[n].links = simulations[n].links
                  /\ n # k => simulations'[n].pc = simulations[n].pc
  <2> DEFINE new == [simulations[k] EXCEPT !.pc = pc, !.i = i]
  <2>1. new.ip = simulations[k].ip /\ new.links = simulations[k].links /\ new.pc = pc
    BY <1>1 DEF Simulated
  <2>2. simulations' = [simulations EXCEPT ![k] = new]
    BY <1>2 DEF Step
  <2> HIDE DEF new
  <2>3. Len(simulations') = Len(simulations)
    <3>1. DOMAIN simulations' = 1 .. Len(simulations)
      BY <1>1, <2>2
    <3>2. simulations' = [n \in 1 .. Len(simulations) |-> simulations'[n]]
      BY <1>1, <2>2
    <3> QED
      BY <1>1, <2>2, ExceptSeq
  <2>4. ASSUME NEW n \in 1 .. Len(simulations)
        PROVE  simulations'[n] = IF n = k THEN new ELSE simulations[n]
    BY <1>1, <2>2
  <2> QED
    BY <1>1, <2>1, <2>3, <2>4
<1>4. \/ UNCHANGED simulations /\ ~Tell(k)
      \/ \E pc, i : Step(k, pc, i) /\ (Tell(k) => pc = "over")
  BY DEF Simulate, Validate, ValidateFails, CycleFails, Report, Tell
<1>5. simulations[k].pc \in {"validate", "report", "tell"} /\ UNCHANGED <<runs, ports, tables>>
  BY DEF Simulate, Validate, ValidateFails, CycleFails, Report, Tell
<1> QED
  BY <1>1, <1>2, <1>4, <1>5

\* Run r, at the head of the port of link l, is put in the table, which makes
\* the entry of its address vec.
Accepts(l, r, vec) ==
  LET ip == IpOf[r]
      n  == connections[ip].conn_count + 1 IN
  /\ r \in Routers /\ ip \in Ips /\ Len(backlog[l]) >= 1 /\ backlog[l][1] = r
  /\ vec \in [Links -> Routers \cup {NoStream}]
  /\ \A m \in Links : vec[m] = IF m = l THEN r ELSE connections[ip].conn_vec[m]
  /\ Len(backlog'[l]) = Len(backlog[l]) - 1
  /\ \A k \in 1 .. Len(backlog'[l]) : backlog'[l][k] = backlog[l][k + 1]
  /\ \A m \in Links : m # l => backlog'[m] = backlog[m]
  /\ \A a \in Ips : a # ip => connections'[a] = connections[a]
  /\ n # ROUTER_LINK_COUNT => /\ connections'[ip].conn_count = n /\ connections'[ip].conn_vec = vec
                              /\ simulations' = simulations
  /\ n = ROUTER_LINK_COUNT => /\ connections'[ip] = NoEntry
                              /\ simulations' = Append(simulations, Simulation(ip, vec))
                              /\ Simulation(ip, vec) \in Simulated
  /\ closed \subseteq closed'
  /\ \A c \in closed' \ closed :
       \/ c = <<connections[ip].conn_vec[l], l>> /\ c[1] # NoStream
       \/ c \in Conns(vec) /\ n = ROUTER_LINK_COUNT /\ ~Whole(vec)
  /\ UNCHANGED <<runs, error_backlog, streams, results, ended>>

LEMMA AcceptEffect ==
  ASSUME IInv, NEW l \in Links, LinkAccept(l)
  PROVE  \E r, vec : Accepts(l, r, vec)
<1> DEFINE r     == Head(backlog[l])
           ip    == IpOf[r]
           old   == connections[ip]
           vec   == [old.conn_vec EXCEPT ![l] = r]
           n     == old.conn_count + 1
           entry == [conn_count |-> n, conn_vec |-> vec]
           rest  == Tail(backlog[l])
           Vec   == [Links -> Routers \cup {NoStream}]
<1>1. /\ backlog[l] \in Seq(Routers) /\ backlog[l] # <<>> /\ r \in Routers /\ r = backlog[l][1]
      /\ Len(rest) = Len(backlog[l]) - 1
      /\ \A k \in 1 .. Len(rest) : rest[k] = backlog[l][k + 1]
      /\ Len(backlog[l]) \in Nat /\ Len(backlog[l]) >= 1
  <2>1. backlog[l] \in Seq(Routers) /\ backlog[l] # <<>>
    BY DEF LinkAccept, IInv, TypeOK
  <2> QED
    BY <2>1, HeadTailProperties, LenProperties, EmptySeq
<1>2. /\ ip \in Ips /\ old.conn_vec \in Vec
      /\ connections \in [Ips -> [conn_count : 0 .. ROUTER_LINK_COUNT - 1, conn_vec : Vec]]
      /\ backlog \in [Links -> Seq(Routers)]
  BY <1>1, RouterAssumption DEF IInv, TypeOK
<1>3. entry.conn_count = n /\ entry.conn_vec = vec
  OBVIOUS
<1>4. /\ backlog' = [backlog EXCEPT ![l] = rest]
      /\ connections' = [connections EXCEPT ![ip] = IF Full(entry) THEN NoEntry ELSE entry]
      /\ simulations' = IF Full(entry) THEN Append(simulations, Simulation(ip, vec)) ELSE simulations
      /\ closed' = closed \cup (IF old.conn_vec[l] = NoStream THEN {} ELSE {<<old.conn_vec[l], l>>})
                     \cup (IF Full(entry) /\ ~Whole(vec) THEN Conns(vec) ELSE {})
      /\ UNCHANGED <<runs, error_backlog, streams, results, ended, crashed>>
  BY <1>3 DEF LinkAccept, Removed
<1>5. Full(entry) <=> n = ROUTER_LINK_COUNT
  BY <1>3 DEF Full
<1> HIDE DEF entry, rest, r, ip, old, n
<1>6. vec \in Vec /\ \A m \in Links : vec[m] = IF m = l THEN r ELSE old.conn_vec[m]
  BY <1>1, <1>2
<1> HIDE DEF vec
<1>7. Simulation(ip, vec) \in Simulated
  BY <1>2, <1>6, LinkFacts DEF Simulation, Simulated
<1>8. /\ \A a \in Ips : a # ip => connections'[a] = connections[a]
      /\ connections'[ip] = IF Full(entry) THEN NoEntry ELSE entry
  BY <1>2, <1>4
<1>9. /\ backlog'[l] = rest /\ \A m \in Links : m # l => backlog'[m] = backlog[m]
  BY <1>2, <1>4
<1>10. /\ closed \subseteq closed'
       /\ \A c \in closed' \ closed :
            \/ c = <<old.conn_vec[l], l>> /\ c[1] # NoStream
            \/ c \in Conns(vec) /\ n = ROUTER_LINK_COUNT /\ ~Whole(vec)
  BY <1>4, <1>5
<1>11. UNCHANGED <<runs, error_backlog, streams, results, ended>>
  BY <1>4
<1>12. old = connections[IpOf[r]] /\ ip = IpOf[r] /\ n = connections[IpOf[r]].conn_count + 1
  BY DEF ip, old, n
<1>13. /\ n # ROUTER_LINK_COUNT => /\ connections'[ip].conn_count = n /\ connections'[ip].conn_vec = vec
                                   /\ simulations' = simulations
       /\ n = ROUTER_LINK_COUNT => /\ connections'[ip] = NoEntry
                                   /\ simulations' = Append(simulations, Simulation(ip, vec))
  BY <1>3, <1>4, <1>5, <1>8
<1>14. Accepts(l, r, vec)
  BY <1>1, <1>2, <1>6, <1>7, <1>8, <1>9, <1>10, <1>11, <1>12, <1>13 DEF Accepts
<1> QED
  BY <1>14

\* The simulations after a connection was accepted: those before, and one
\* more if the entry was full.
LEMMA AcceptSimulations ==
  ASSUME IInv, NEW l \in Links, NEW r, NEW vec, Accepts(l, r, vec)
  PROVE  /\ Len(simulations') >= Len(simulations) /\ Len(simulations') \in Nat
         /\ \A k \in 1 .. Len(simulations) : simulations'[k] = simulations[k]
         /\ \A k \in 1 .. Len(simulations') :
              \/ k \in 1 .. Len(simulations)
              \/ /\ k = Len(simulations) + 1
                 /\ connections[IpOf[r]].conn_count + 1 = ROUTER_LINK_COUNT
                 /\ simulations'[k].ip = IpOf[r] /\ simulations'[k].links = vec
<1>1. simulations \in Seq(Simulated) /\ Len(simulations) \in Nat
  BY Typed
<1>2. CASE simulations' = simulations
  BY <1>1, <1>2
<1>3. CASE /\ connections[IpOf[r]].conn_count + 1 = ROUTER_LINK_COUNT
           /\ simulations' = Append(simulations, Simulation(IpOf[r], vec))
           /\ Simulation(IpOf[r], vec) \in Simulated
  <2>1. Simulation(IpOf[r], vec).ip = IpOf[r] /\ Simulation(IpOf[r], vec).links = vec
    BY DEF Simulation
  <2> QED
    BY <1>1, <1>3, <2>1, AppendProperties, LenProperties
<1> QED
  BY <1>2, <1>3 DEF Accepts

\* A router moves itself only, and what it has connected stays connected.
LEMMA RouterEffect ==
  ASSUME IInv, NEW r \in Routers, Router(r) \/ RouterDie(r)
  PROVE  /\ \A q \in Routers : q # r => router'[q] = router[q]
         /\ Active(r) /\ router'[r].pc # "off"
         /\ router'[r].pc = "done" => \A l \in Links : <<r, l>> \in ended
         /\ UNCHANGED <<overlapped, error_backlog, tables, simulations, ends>>
         /\ ~RouterConnect(r) => UNCHANGED backlog
         /\ ~RouterConnect(r) => \/ router'[r].pc = "dead"
                                 \/ \A l \in Links : Made(r, l)' <=> Made(r, l)
<1>0. router \in [Routers -> Place]
  BY DEF IInv, TypeOK, Place
<1>1. CASE RouterConnect(r)
  <2>1. Goto(r, "id", router[r].i) /\ At(r, "link")
    BY <1>1 DEF RouterConnect
  <2>2. router'[r].pc = "id" /\ \A q \in Routers : q # r => router'[q] = router[q]
    BY <1>0, <2>1 DEF Goto
  <2> QED
    BY <1>1, <2>1, <2>2 DEF RouterConnect, At, Active
<1>2. CASE RouterIdentify(r)
  <2> DEFINE i == router[r].i
  <2>1. i \in Links /\ i \in Nat /\ router[r].pc = "id" /\ \A l \in Links : l \in Nat /\ l < ROUTER_LINK_COUNT
    BY <1>0, <1>2, RouterAssumption DEF RouterIdentify, At, Place, Links
  <2>2. CASE i + 1 < ROUTER_LINK_COUNT
    <3>1. Goto(r, "link", i + 1)
      BY <1>2, <2>2 DEF RouterIdentify, NextLink
    <3>2. router'[r].pc = "link" /\ router'[r].i = i + 1 /\ \A q \in Routers : q # r => router'[q] = router[q]
      BY <1>0, <3>1 DEF Goto
    <3>3. \A l \in Links : l < i + 1 <=> l <= i
      BY <2>1
    <3>4. \A l \in Links : Made(r, l)' <=> Made(r, l)
      BY <2>1, <3>2, <3>3 DEF Made
    <3> QED
      BY <1>2, <2>1, <3>2, <3>4 DEF RouterIdentify, ports, Active
  <2>3. CASE ~ (i + 1 < ROUTER_LINK_COUNT)
    <3>1. Goto(r, "run", 0)
      BY <1>2, <2>3 DEF RouterIdentify, NextLink
    <3>2. router'[r].pc = "run" /\ \A q \in Routers : q # r => router'[q] = router[q]
      BY <1>0, <3>1 DEF Goto
    <3>3. \A l \in Links : l <= i
      BY <2>1, <2>3, RouterAssumption
    <3>4. \A l \in Links : Made(r, l)' <=> Made(r, l)
      BY <2>1, <3>2, <3>3 DEF Made
    <3> QED
      BY <1>2, <2>1, <3>2, <3>4 DEF RouterIdentify, ports, Active
  <2> QED
    BY <2>2, <2>3
<1>3. CASE RouterEnd(r)
  <2>1. Goto(r, "done", 0) /\ router[r].pc = "run"
    BY <1>3 DEF RouterEnd, At
  <2>2. router'[r].pc = "done" /\ \A q \in Routers : q # r => router'[q] = router[q]
    BY <1>0, <2>1 DEF Goto
  <2>3. \A l \in Links : Made(r, l)' <=> Made(r, l)
    BY <2>1, <2>2 DEF Made
  <2> QED
    BY <1>3, <2>1, <2>2, <2>3 DEF RouterEnd, ports, Active
<1>4. CASE RouterCutOff(r) \/ RouterDie(r)
  <2>1. Goto(r, "dead", 0) /\ Active(r)
    BY <1>4 DEF RouterCutOff, RouterDie, At, Active
  <2>2. router'[r].pc = "dead" /\ \A q \in Routers : q # r => router'[q] = router[q]
    BY <1>0, <2>1 DEF Goto
  <2> QED
    BY <1>4, <2>1, <2>2 DEF RouterCutOff, RouterDie, ports
<1> QED
  BY <1>1, <1>2, <1>3, <1>4 DEF Router

\* A run that starts is the only one that becomes active.
LEMMA StartEffect ==
  ASSUME IInv, NEW r \in Routers, RouterStart(r)
  PROVE  /\ \A q \in Routers : q # r => router'[q] = router[q]
         /\ router[r].pc = "off" /\ router'[r].pc = "link" /\ router'[r].i = 0
         /\ error_backlog' = Append(error_backlog, r)
         /\ \A q \in Routers : Active(q) /\ IpOf[q] = IpOf[r] => IpOf[r] \in overlapped'
         /\ UNCHANGED <<backlog, tables, simulations, ends>>
<1>0. router \in [Routers -> Place]
  BY DEF IInv, TypeOK, Place
<1>1. Goto(r, "link", 0) /\ router[r].pc = "off"
  BY DEF RouterStart, At
<1>2. /\ \A q \in Routers : q # r => router'[q] = router[q]
      /\ router'[r].pc = "link" /\ router'[r].i = 0
  BY <1>0, <1>1 DEF Goto
<1> QED
  BY <1>1, <1>2 DEF RouterStart

-----------------------------------------------------------------------------
(* Connections stay under the address of their run. *)

LEMMA OwnStep ==
  ASSUME IInv, OwnInv, [Next]_vars
  PROVE  OwnInv'
<1>0. /\ TableOwn /\ LinksOwn /\ EndedOver /\ DoneEnded
      /\ Len(simulations) \in Nat /\ DOMAIN simulations = 1 .. Len(simulations)
  BY Typed DEF OwnInv
<1>1. ASSUME UNCHANGED <<connections, simulations, ended>>
      PROVE  TableOwn' /\ LinksOwn' /\ EndedOver'
  BY <1>0, <1>1 DEF TableOwn, LinksOwn, EndedOver
<1>2. CASE UNCHANGED vars
  BY <1>0, <1>1, <1>2 DEF vars, runs, tables, ends, DoneEnded, OwnInv
<1>3. ASSUME NEW r \in Routers, Router(r) \/ RouterDie(r)
      PROVE  OwnInv'
  <2>1. /\ \A q \in Routers : q # r => router'[q] = router[q]
        /\ router'[r].pc = "done" => \A l \in Links : <<r, l>> \in ended
        /\ UNCHANGED <<connections, simulations, ended>>
    BY <1>3, RouterEffect DEF tables, ends
  <2>2. DoneEnded'
    BY <1>0, <2>1 DEF DoneEnded
  <2> QED
    BY <1>1, <2>1, <2>2 DEF OwnInv
<1>4. ASSUME NEW r \in Routers, RouterStart(r)
      PROVE  OwnInv'
  <2>1. /\ \A q \in Routers : q # r => router'[q] = router[q]
        /\ router'[r].pc = "link"
        /\ UNCHANGED <<connections, simulations, ended>>
    BY <1>4, StartEffect DEF tables, ends
  <2>2. DoneEnded'
    BY <1>0, <2>1 DEF DoneEnded
  <2> QED
    BY <1>1, <2>1, <2>2 DEF OwnInv
<1>5. CASE ErrorAccept
  BY <1>0, <1>1, <1>5 DEF ErrorAccept, runs, ends, DoneEnded, OwnInv
<1>6. ASSUME NEW l \in Links, LinkAccept(l)
      PROVE  OwnInv'
  <2>1. PICK r, vec : Accepts(l, r, vec)
    BY <1>6, AcceptEffect
  <2> DEFINE ip == IpOf[r]
  <2>2. /\ r \in Routers /\ ip \in Ips
        /\ \A m \in Links : vec[m] = IF m = l THEN r ELSE connections[ip].conn_vec[m]
        /\ \A a \in Ips : a # ip => connections'[a] = connections[a]
        /\ connections'[ip] = NoEntry \/ connections'[ip].conn_vec = vec
        /\ UNCHANGED <<router, ended>>
    BY <2>1 DEF Accepts, runs
  <2>3. \A m \in Links, q \in Routers : vec[m] = q => IpOf[q] = ip
    BY <1>0, <2>2 DEF TableOwn
  <2>4. TableOwn'
    <3>1. \A m \in Links : NoEntry.conn_vec[m] = NoStream
      BY DEF NoEntry
    <3>2. ASSUME NEW a \in Ips, NEW m \in Links, NEW q \in Routers, connections'[a].conn_vec[m] = q
          PROVE  IpOf[q] = a
      <4>1. CASE a # ip
        BY <1>0, <2>2, <3>2, <4>1 DEF TableOwn
      <4>2. CASE a = ip
        BY <2>2, <2>3, <3>1, <3>2, <4>2, RouterAssumption
      <4> QED
        BY <4>1, <4>2
    <3> QED
      BY <3>2 DEF TableOwn
  <2>5. /\ Len(simulations') >= Len(simulations) /\ Len(simulations') \in Nat
        /\ \A k \in 1 .. Len(simulations) : simulations'[k] = simulations[k]
        /\ \A k \in 1 .. Len(simulations') :
             \/ k \in 1 .. Len(simulations)
             \/ simulations'[k].ip = ip /\ simulations'[k].links = vec
    BY <2>1, AcceptSimulations
  <2>6. LinksOwn'
    <3>1. ASSUME NEW k \in 1 .. Len(simulations'), NEW m \in Links, NEW q \in Routers,
                 simulations'[k].links[m] = q
          PROVE  IpOf[q] = simulations'[k].ip
      <4>1. CASE k \in 1 .. Len(simulations)
        BY <1>0, <2>5, <3>1, <4>1 DEF LinksOwn
      <4>2. CASE simulations'[k].ip = ip /\ simulations'[k].links = vec
        BY <2>3, <3>1, <4>2
      <4> QED
        BY <2>5, <4>1, <4>2
    <3> QED
      BY <3>1 DEF LinksOwn
  <2>7. EndedOver'
    <3>1. \A k \in 1 .. Len(simulations) : k \in 1 .. Len(simulations')
      BY <1>0, <2>5
    <3> QED
      BY <1>0, <2>2, <2>5, <3>1 DEF EndedOver
  <2>8. DoneEnded'
    BY <1>0, <2>2 DEF DoneEnded
  <2> QED
    BY <2>4, <2>6, <2>7, <2>8 DEF OwnInv
<1>7. ASSUME NEW k \in DOMAIN simulations, Simulate(k)
      PROVE  OwnInv'
  <2>1. /\ k \in 1 .. Len(simulations) /\ Len(simulations') = Len(simulations)
        /\ \A n \in 1 .. Len(simulations) :
              /\ simulations'[n].ip = simulations[n].ip
              /\ simulations'[n].links = simulations[n].links
              /\ simulations[n].pc = "over" => simulations'[n].pc = "over"
        /\ UNCHANGED <<router, connections>>
        /\ Tell(k) => simulations'[k].pc = "over"
    BY <1>7, SimulateEffect DEF runs, tables
  <2>2. TableOwn' /\ LinksOwn'
    BY <1>0, <2>1 DEF TableOwn, LinksOwn
  <2>3. /\ ended \subseteq ended'
        /\ ended' # ended => Tell(k) /\ ended' = ended \cup Conns(simulations[k].links)
    <3>1. Tell(k) => ended' = ended \cup Conns(simulations[k].links)
      BY DEF Tell
    <3>2. Validate(k) \/ ValidateFails(k) \/ CycleFails(k) \/ Report(k) => ended' = ended
      BY DEF Validate, ValidateFails, CycleFails, Report, ends
    <3> QED
      BY <1>7, <3>1, <3>2 DEF Simulate
  <2>4. EndedOver'
    <3>1. ASSUME NEW r \in Routers, NEW l \in Links, <<r, l>> \in ended'
          PROVE  \E n \in 1 .. Len(simulations) : simulations'[n].links[l] = r /\ simulations'[n].pc = "over"
      <4>1. CASE <<r, l>> \in ended
        BY <1>0, <2>1, <4>1 DEF EndedOver
      <4>2. CASE <<r, l>> \notin ended
        <5>1. Tell(k) /\ <<r, l>> \in Conns(simulations[k].links)
          BY <2>3, <3>1, <4>2
        <5>2. simulations[k].links[l] = r
          BY <5>1 DEF Conns
        <5> QED
          BY <2>1, <5>1, <5>2
      <4> QED
        BY <4>1, <4>2
    <3> QED
      BY <2>1, <3>1 DEF EndedOver
  <2>5. DoneEnded'
    BY <1>0, <2>1, <2>3 DEF DoneEnded
  <2> QED
    BY <2>2, <2>4, <2>5 DEF OwnInv
<1> QED
  BY <1>2, <1>3, <1>4, <1>5, <1>6, <1>7 DEF Next

-----------------------------------------------------------------------------
(* One run after the other. *)

\* A run whose connection has not gone to a simulation goes on.
LEMMA ActiveOf ==
  ASSUME IInv, OwnInv, NEW ip \in Ips, Good(ip), WholeInv(ip),
         NEW r \in Routers, IpOf[r] = ip, NEW l \in Links, Made(r, l), ~Taken(r)
  PROVE  Active(r)
<1>1. router[r].pc \in {"link", "id", "run", "done"}
  BY DEF Made
<1>2. ASSUME router[r].pc = "done"
      PROVE  FALSE
  <2>1. <<r, l>> \in ended
    BY <1>2 DEF OwnInv, DoneEnded
  <2>2. PICK k \in 1 .. Len(simulations) : simulations[k].links[l] = r
    BY <2>1 DEF OwnInv, EndedOver
  <2>3. simulations[k].ip = ip
    BY <2>2 DEF OwnInv, LinksOwn
  <2>4. PICK q \in Routers : simulations[k].links = All(q)
    BY <2>3 DEF WholeInv
  <2>5. q = r
    BY <2>2, <2>4 DEF All
  <2> QED
    BY <2>4, <2>5 DEF Taken
<1> QED
  BY <1>1, <1>2 DEF Active

\* A run that starts at an address in good use finds no other there.
LEMMA TurnStep ==
  ASSUME IInv, [Next]_vars, NEW ip \in Ips, Good(ip)', TurnInv(ip)
  PROVE  TurnInv(ip)'
<1>1. ASSUME \A r \in Routers : IpOf[r] = ip /\ Active(r)' => Active(r)
      PROVE  TurnInv(ip)'
  BY <1>1 DEF TurnInv
<1>2. CASE UNCHANGED router
  BY <1>1, <1>2 DEF Active
<1>3. ASSUME NEW r \in Routers, Router(r) \/ RouterDie(r)
      PROVE  TurnInv(ip)'
  <2>1. Active(r) /\ \A q \in Routers : q # r => router'[q] = router[q]
    BY <1>3, RouterEffect
  <2> QED
    BY <1>1, <2>1 DEF Active
<1>4. ASSUME NEW r \in Routers, RouterStart(r)
      PROVE  TurnInv(ip)'
  <2>1. /\ \A q \in Routers : q # r => router'[q] = router[q]
        /\ \A q \in Routers : Active(q) /\ IpOf[q] = IpOf[r] => IpOf[r] \in overlapped'
    BY <1>4, StartEffect
  <2>2. CASE IpOf[r] # ip
    BY <1>1, <2>1, <2>2 DEF Active
  <2>3. CASE IpOf[r] = ip
    <3>1. \A q \in Routers : IpOf[q] = ip => ~Active(q)
      BY <2>1, <2>3 DEF Good
    <3>2. \A q \in Routers : IpOf[q] = ip /\ Active(q)' => q = r
      BY <2>1, <3>1 DEF Active
    <3> QED
      BY <3>2 DEF TurnInv
  <2> QED
    BY <2>2, <2>3
<1> QED
  BY <1>2, <1>3, <1>4 DEF Next, vars, runs, ErrorAccept, LinkAccept, Simulate, Validate,
     ValidateFails, CycleFails, Report, Tell

-----------------------------------------------------------------------------
(* A connection is in one place. *)

LEMMA PlaceKept ==
  ASSUME NEW ip, PlaceInv(ip), UNCHANGED backlog, connections'[ip] = connections[ip],
         \A r \in Routers : IpOf[r] = ip =>
           (Taken(r)' <=> Taken(r)) /\ \A l \in Links : Made(r, l)' <=> Made(r, l)
  PROVE  PlaceInv(ip)'
BY DEF PlaceInv, Waiting, Kept

LEMMA PlaceStart ==
  ASSUME IInv, NEW q \in Routers, RouterStart(q), NEW ip \in Ips, PlaceInv(ip)
  PROVE  PlaceInv(ip)'
<1>1. /\ \A r \in Routers : r # q => router'[r] = router[r]
      /\ router[q].pc = "off" /\ router'[q].pc = "link" /\ router'[q].i = 0
      /\ UNCHANGED <<backlog, connections, simulations>>
  BY StartEffect DEF tables
<1>2. \A l \in Links : ~ (l < 0)
  BY RouterAssumption DEF Links
<1>3. \A r \in Routers, l \in Links : Made(r, l)' <=> Made(r, l)
  BY <1>1, <1>2 DEF Made
<1>4. \A r \in Routers : Taken(r)' <=> Taken(r)
  BY <1>1 DEF Taken
<1> QED
  BY <1>1, <1>3, <1>4, PlaceKept

\* A connection that is made waits at its port and nowhere else.
LEMMA PlaceConnect ==
  ASSUME IInv, NEW q \in Routers, RouterConnect(q), NEW ip \in Ips, PlaceInv(ip)
  PROVE  PlaceInv(ip)'
<1> DEFINE i == router[q].i
           n == Len(backlog[i])
<1>1. /\ router \in [Routers -> Place] /\ router[q].pc = "link" /\ i \in Links
      /\ backlog[i] \in Seq(Routers) /\ n \in Nat /\ backlog \in [Links -> Seq(Routers)]
  BY Typed DEF IInv, TypeOK, Place, RouterConnect, At
<1>2. /\ \A r \in Routers : r # q => router'[r] = router[r]
      /\ router'[q].pc = "id" /\ router'[q].i = i
      /\ UNCHANGED <<connections, simulations>>
  BY <1>1 DEF RouterConnect, Goto, tables
<1>3. /\ Len(backlog'[i]) = n + 1 /\ backlog'[i][n + 1] = q
      /\ \A m \in 1 .. n : backlog'[i][m] = backlog[i][m]
      /\ \A l \in Links : l # i => backlog'[l] = backlog[l]
  <2>1. backlog' = [backlog EXCEPT ![i] = Append(backlog[i], q)]
    BY DEF RouterConnect
  <2>2. backlog'[i] = Append(backlog[i], q) /\ \A l \in Links : l # i => backlog'[l] = backlog[l]
    BY <1>1, <2>1
  <2> QED
    BY <1>1, <2>2, AppendProperties
<1>4. \A l \in Links : (Made(q, l) <=> l < i) /\ (Made(q, l)' <=> l <= i)
  BY <1>1, <1>2 DEF Made
<1>5. \A r \in Routers : Taken(r)' <=> Taken(r)
  BY <1>2 DEF Taken
<1>6. \A r \in Routers, l \in Links : Kept(r, l)' <=> Kept(r, l)
  BY <1>2 DEF Kept
<1>7. i \in Nat /\ \A l \in Links : l \in Nat
  BY <1>1, RouterAssumption DEF Links
<1> HIDE DEF i, n
<1>8. ASSUME NEW r \in Routers, IpOf[r] = ip, NEW l \in Links
      PROVE  /\ Waiting(r, l)' => Made(r, l)' /\ ~Kept(r, l)' /\ ~Taken(r)'
             /\ Kept(r, l)' => Made(r, l)' /\ ~Taken(r)'
             /\ Taken(r)' => Made(r, l)'
             /\ \A m, k \in 1 .. Len(backlog'[l]) : backlog'[l][m] = r /\ backlog'[l][k] = r => m = k
  <2>1. /\ Waiting(r, l) => Made(r, l) /\ ~Kept(r, l) /\ ~Taken(r)
        /\ Kept(r, l) => Made(r, l) /\ ~Taken(r)
        /\ Taken(r) => Made(r, l)
        /\ \A m, k \in 1 .. Len(backlog[l]) : backlog[l][m] = r /\ backlog[l][k] = r => m = k
    BY <1>8 DEF PlaceInv
  <2>2. CASE r = q /\ l = i
    <3>1. ~Made(r, l) /\ Made(r, l)'
      BY <1>4, <1>7, <2>2
    <3>2. \A m \in 1 .. n : backlog[l][m] # r
      BY <2>1, <2>2, <3>1 DEF Waiting, n
    <3>3. \A m \in 1 .. n + 1 : backlog'[l][m] = r => m = n + 1
      BY <1>1, <1>3, <2>2, <3>2
    <3> QED
      BY <1>3, <1>5, <1>6, <2>1, <2>2, <3>1, <3>3
  <2>3. CASE l # i
    <3>1. Made(r, l)' <=> Made(r, l)
      <4>1. CASE r = q
        BY <1>4, <1>7, <2>3, <4>1
      <4>2. CASE r # q
        BY <1>2, <4>2 DEF Made
      <4> QED
        BY <4>1, <4>2
    <3>2. backlog'[l] = backlog[l]
      BY <1>3, <2>3
    <3> QED
      BY <1>5, <1>6, <2>1, <3>1, <3>2 DEF Waiting
  <2>4. CASE r # q /\ l = i
    <3>1. Made(r, l)' <=> Made(r, l)
      BY <1>2, <2>4 DEF Made
    <3>2. \A m \in 1 .. n + 1 : backlog'[l][m] = r => m \in 1 .. n /\ backlog[l][m] = r
      BY <1>1, <1>3, <2>4
    <3>3. Waiting(r, l)' => Waiting(r, l)
      BY <1>3, <2>4, <3>2 DEF Waiting, n
    <3>4. \A m, k \in 1 .. Len(backlog'[l]) : backlog'[l][m] = r /\ backlog'[l][k] = r => m = k
      BY <1>3, <2>1, <2>4, <3>2 DEF n
    <3> QED
      BY <1>5, <1>6, <2>1, <3>1, <3>3, <3>4
  <2> QED
    BY <2>2, <2>3, <2>4
<1>9. (connections[ip].conn_count = Cardinality({l \in Links : connections[ip].conn_vec[l] # NoStream}))'
  BY <1>2 DEF PlaceInv
<1> QED
  BY <1>8, <1>9 DEF PlaceInv

\* A connection accepted from an address in good use: its place in the entry
\* is free, and an entry that it fills holds the links of one run.
LEMMA AcceptHere ==
  ASSUME IInv, OwnInv, NEW ip \in Ips, Good(ip), TurnInv(ip), PlaceInv(ip), WholeInv(ip),
         NEW l \in Links, NEW q, NEW vec, Accepts(l, q, vec), IpOf[q] = ip
  PROVE  /\ Made(q, l) /\ ~Taken(q) /\ connections[ip].conn_vec[l] = NoStream
         /\ Cardinality({m \in Links : vec[m] # NoStream}) = connections[ip].conn_count + 1
         /\ connections[ip].conn_count + 1 = ROUTER_LINK_COUNT =>
              vec = All(q) /\ \A m \in Links : m # l => Kept(q, m)
<1> DEFINE old == connections[ip]
           In  == {m \in Links : old.conn_vec[m] # NoStream}
<1>1. /\ q \in Routers /\ Len(backlog[l]) >= 1 /\ backlog[l][1] = q
      /\ vec \in [Links -> Routers \cup {NoStream}]
      /\ \A m \in Links : vec[m] = IF m = l THEN q ELSE old.conn_vec[m]
  BY DEF Accepts
<1>2. old.conn_vec \in [Links -> Routers \cup {NoStream}] /\ Len(backlog[l]) \in Nat
  BY Typed DEF IInv, TypeOK
<1>3. Waiting(q, l)
  <2>1. 1 \in 1 .. Len(backlog[l])
    BY <1>1, <1>2
  <2> QED
    BY <1>1, <2>1 DEF Waiting
<1>4. Made(q, l) /\ ~Kept(q, l) /\ ~Taken(q)
  BY <1>1, <1>3 DEF PlaceInv
<1>5. ASSUME NEW m \in Links, NEW p \in Routers, old.conn_vec[m] = p
      PROVE  p = q /\ Kept(q, m)
  <2>1. IpOf[p] = ip
    BY <1>5 DEF OwnInv, TableOwn
  <2>2. Kept(p, m)
    BY <1>5, <2>1 DEF Kept
  <2>3. Made(p, m) /\ ~Taken(p)
    BY <2>1, <2>2 DEF PlaceInv
  <2>4. Active(p) /\ Active(q)
    BY <1>1, <1>4, <2>1, <2>3, ActiveOf
  <2>5. p = q
    BY <1>1, <2>1, <2>4 DEF TurnInv
  <2> QED
    BY <2>2, <2>5
<1>6. old.conn_vec[l] = NoStream
  BY <1>2, <1>4, <1>5
<1>7. IsFiniteSet(Links) /\ Cardinality(Links) = ROUTER_LINK_COUNT
  BY FS_Interval, RouterAssumption DEF Links
<1>8. {m \in Links : vec[m] # NoStream} = In \cup {l}
  <2>1. q # NoStream
    BY <1>1, RouterAssumption
  <2> QED
    BY <1>1, <2>1
<1>9. /\ IsFiniteSet(In) /\ Cardinality(In) = old.conn_count
      /\ l \notin In /\ In \cup {l} \subseteq Links
  <2>1. Cardinality(In) = old.conn_count
    BY DEF PlaceInv
  <2>2. IsFiniteSet(In)
    BY <1>7, FS_Subset
  <2> QED
    BY <1>6, <2>1, <2>2
<1> HIDE DEF In
<1>10. IsFiniteSet(In \cup {l}) /\ Cardinality(In \cup {l}) = old.conn_count + 1
  BY <1>9, FS_AddElement
<1>11. ASSUME old.conn_count + 1 = ROUTER_LINK_COUNT
       PROVE  vec = All(q) /\ \A m \in Links : m # l => Kept(q, m)
  <2>1. In \cup {l} = Links
    BY <1>7, <1>9, <1>10, <1>11, FS_Subset
  <2>2. \A m \in Links : vec[m] # NoStream
    BY <1>8, <2>1
  <2>3. \A m \in Links : m # l => old.conn_vec[m] \in Routers
    BY <1>1, <1>2, <2>2
  <2>4. \A m \in Links : m # l => old.conn_vec[m] = q /\ Kept(q, m)
    BY <1>5, <2>3
  <2>5. \A m \in Links : vec[m] = q
    BY <1>1, <2>4
  <2> QED
    BY <1>1, <2>4, <2>5 DEF All
<1> QED
  BY <1>4, <1>6, <1>8, <1>10, <1>11

\* Which runs are simulated after a connection was accepted.
LEMMA AcceptTaken ==
  ASSUME IInv, NEW l \in Links, NEW q, NEW vec, Accepts(l, q, vec), NEW r \in Routers
  PROVE  /\ Taken(r) => Taken(r)'
         /\ Taken(r)' => \/ Taken(r)
                         \/ vec = All(r) /\ r = q /\ connections[IpOf[q]].conn_count + 1 = ROUTER_LINK_COUNT
<1>1. /\ Len(simulations) \in Nat /\ Len(simulations') \in Nat /\ Len(simulations') >= Len(simulations)
      /\ \A k \in 1 .. Len(simulations) : simulations'[k] = simulations[k]
      /\ \A k \in 1 .. Len(simulations') :
           \/ k \in 1 .. Len(simulations)
           \/ /\ connections[IpOf[q]].conn_count + 1 = ROUTER_LINK_COUNT
              /\ simulations'[k].links = vec
  BY Typed, AcceptSimulations
<1>2. vec[l] = q
  BY DEF Accepts
<1>3. vec = All(r) => r = q
  BY <1>2 DEF All
<1>4. \A k \in 1 .. Len(simulations) : k \in 1 .. Len(simulations')
  BY <1>1
<1>5. Taken(r) => Taken(r)'
  BY <1>1, <1>4 DEF Taken
<1>6. ASSUME NEW k \in 1 .. Len(simulations'), simulations'[k].links = All(r)
      PROVE  \/ Taken(r)
             \/ vec = All(r) /\ connections[IpOf[q]].conn_count + 1 = ROUTER_LINK_COUNT
  BY <1>1, <1>6 DEF Taken
<1> QED
  BY <1>3, <1>5, <1>6 DEF Taken

\* The ports after a connection was accepted.
LEMMA AcceptWaiting ==
  ASSUME IInv, NEW l \in Links, NEW q, NEW vec, Accepts(l, q, vec), NEW r \in Routers, NEW m \in Links,
         \A j, k \in 1 .. Len(backlog[m]) : backlog[m][j] = r /\ backlog[m][k] = r => j = k
  PROVE  /\ Waiting(r, m)' => Waiting(r, m) /\ ~ (r = q /\ m = l)
         /\ \A j, k \in 1 .. Len(backlog'[m]) : backlog'[m][j] = r /\ backlog'[m][k] = r => j = k
<1>1. CASE m # l
  <2>1. backlog'[m] = backlog[m]
    BY <1>1 DEF Accepts
  <2> QED
    BY <1>1, <2>1 DEF Waiting
<1>2. CASE m = l
  <2>1. /\ Len(backlog'[l]) = Len(backlog[l]) - 1 /\ backlog[l][1] = q
        /\ \A k \in 1 .. Len(backlog'[l]) : backlog'[l][k] = backlog[l][k + 1]
        /\ Len(backlog[l]) \in Nat /\ Len(backlog[l]) >= 1
    BY Typed DEF Accepts
  <2>2. \A k \in 1 .. Len(backlog'[l]) :
          k + 1 \in 1 .. Len(backlog[l]) /\ k + 1 # 1 /\ k \in Nat /\ backlog'[l][k] = backlog[l][k + 1]
    BY <2>1
  <2>3. 1 \in 1 .. Len(backlog[l])
    BY <2>1
  <2>4. Waiting(r, l)' => Waiting(r, l)
    BY <2>2 DEF Waiting
  <2>5. r = q => ~Waiting(r, l)'
    BY <1>2, <2>1, <2>2, <2>3 DEF Waiting
  <2>6. ASSUME NEW j \in 1 .. Len(backlog'[l]), NEW k \in 1 .. Len(backlog'[l]),
               backlog'[l][j] = r, backlog'[l][k] = r
        PROVE  j = k
    <3>1. j + 1 = k + 1
      BY <1>2, <2>2, <2>6
    <3> QED
      BY <2>2, <3>1
  <2> QED
    BY <1>2, <2>4, <2>5, <2>6
<1> QED
  BY <1>1, <1>2

LEMMA PlaceAccept ==
  ASSUME IInv, OwnInv, NEW ip \in Ips, Good(ip), TurnInv(ip), PlaceInv(ip), WholeInv(ip),
         NEW l \in Links, NEW q, NEW vec, Accepts(l, q, vec)
  PROVE  PlaceInv(ip)'
<1> DEFINE full == connections[ip].conn_count + 1 = ROUTER_LINK_COUNT
<1>1. /\ q \in Routers /\ IpOf[q] \in Ips /\ UNCHANGED router
      /\ \A a \in Ips : a # IpOf[q] => connections'[a] = connections[a]
      /\ \A m \in Links : vec[m] = IF m = l THEN q ELSE connections[IpOf[q]].conn_vec[m]
  BY DEF Accepts, runs
<1>2. \A r \in Routers, m \in Links : Made(r, m)' <=> Made(r, m)
  BY <1>1 DEF Made
<1>3. ASSUME NEW r \in Routers, IpOf[r] = ip, NEW m \in Links
      PROVE  /\ Waiting(r, m) => Made(r, m) /\ ~Kept(r, m) /\ ~Taken(r)
             /\ Kept(r, m) => Made(r, m) /\ ~Taken(r)
             /\ Taken(r) => Made(r, m)
             /\ Waiting(r, m)' => Waiting(r, m) /\ ~ (r = q /\ m = l)
             /\ \A j, k \in 1 .. Len(backlog'[m]) : backlog'[m][j] = r /\ backlog'[m][k] = r => j = k
             /\ Taken(r) => Taken(r)'
  BY <1>3, AcceptWaiting, AcceptTaken DEF PlaceInv
<1>4. CASE IpOf[q] # ip
  <2>1. connections'[ip] = connections[ip]
    BY <1>1, <1>4
  <2>2. ASSUME NEW r \in Routers, IpOf[r] = ip
        PROVE  Taken(r)' <=> Taken(r)
    BY <1>4, <2>2, AcceptTaken
  <2>3. \A r \in Routers, m \in Links : IpOf[r] = ip => (Kept(r, m)' <=> Kept(r, m))
    BY <2>1 DEF Kept
  <2>4. connections'[ip].conn_count = Cardinality({m \in Links : connections'[ip].conn_vec[m] # NoStream})
    BY <2>1 DEF PlaceInv
  <2> QED
    BY <1>2, <1>3, <2>2, <2>3, <2>4 DEF PlaceInv
<1>5. CASE IpOf[q] = ip
  <2>1. /\ Made(q, l) /\ ~Taken(q) /\ connections[ip].conn_vec[l] = NoStream
        /\ Cardinality({m \in Links : vec[m] # NoStream}) = connections[ip].conn_count + 1
        /\ full => vec = All(q) /\ \A m \in Links : m # l => Kept(q, m)
    BY <1>5, AcceptHere
  <2>2. CASE ~full
    <3>1. /\ connections'[ip].conn_count = connections[ip].conn_count + 1
          /\ connections'[ip].conn_vec = vec
      BY <1>5, <2>2 DEF Accepts
    <3>2. \A r \in Routers : Taken(r)' <=> Taken(r)
      BY <1>5, <2>2, AcceptTaken
    <3>3. \A r \in Routers, m \in Links :
            IpOf[r] = ip => (Kept(r, m)' <=> IF m = l THEN r = q ELSE Kept(r, m))
      BY <1>1, <1>5, <3>1 DEF Kept
    <3>4. connections'[ip].conn_count = Cardinality({m \in Links : connections'[ip].conn_vec[m] # NoStream})
      BY <2>1, <3>1
    <3>5. ASSUME NEW r \in Routers, IpOf[r] = ip, NEW m \in Links
          PROVE  /\ Waiting(r, m)' => Made(r, m)' /\ ~Kept(r, m)' /\ ~Taken(r)'
                 /\ Kept(r, m)' => Made(r, m)' /\ ~Taken(r)'
                 /\ Taken(r)' => Made(r, m)'
      BY <1>2, <1>3, <2>1, <3>2, <3>3, <3>5
    <3> QED
      BY <1>3, <3>4, <3>5 DEF PlaceInv
  <2>3. CASE full
    <3>1. connections'[ip] = NoEntry /\ vec = All(q) /\ \A m \in Links : m # l => Kept(q, m)
      BY <1>5, <2>1, <2>3 DEF Accepts
    <3>2. \A r \in Routers : r # q => (Taken(r)' <=> Taken(r))
      BY AcceptTaken
    <3>3. \A r \in Routers, m \in Links : IpOf[r] = ip => ~Kept(r, m)'
      BY <3>1, RouterAssumption DEF Kept, NoEntry
    <3>4. connections'[ip].conn_count = Cardinality({m \in Links : connections'[ip].conn_vec[m] # NoStream})
      <4>1. {m \in Links : connections'[ip].conn_vec[m] # NoStream} = {}
        BY <3>1 DEF NoEntry
      <4> QED
        BY <3>1, <4>1, FS_EmptySet DEF NoEntry
    <3>5. \A m \in Links : Made(q, m) /\ ~Waiting(q, m)'
      BY <1>1, <1>3, <1>5, <2>1, <3>1
    <3>6. ASSUME NEW r \in Routers, IpOf[r] = ip, NEW m \in Links
          PROVE  /\ Waiting(r, m)' => Made(r, m)' /\ ~Kept(r, m)' /\ ~Taken(r)'
                 /\ Kept(r, m)' => Made(r, m)' /\ ~Taken(r)'
                 /\ Taken(r)' => Made(r, m)'
      BY <1>2, <1>3, <3>2, <3>3, <3>5, <3>6
    <3> QED
      BY <1>3, <3>4, <3>6 DEF PlaceInv
  <2> QED
    BY <2>2, <2>3
<1> QED
  BY <1>4, <1>5

LEMMA PlaceStep ==
  ASSUME IInv, OwnInv, [Next]_vars, NEW ip \in Ips, Good(ip), Good(ip)',
         TurnInv(ip), PlaceInv(ip), WholeInv(ip)
  PROVE  PlaceInv(ip)'
<1>1. ASSUME UNCHANGED <<router, backlog, connections>>,
             Len(simulations') = Len(simulations),
             \A k \in 1 .. Len(simulations) : simulations'[k].links = simulations[k].links
      PROVE  PlaceInv(ip)'
  <2>1. \A r \in Routers : Taken(r)' <=> Taken(r)
    BY <1>1 DEF Taken
  <2>2. \A r \in Routers, l \in Links : Made(r, l)' <=> Made(r, l)
    BY <1>1 DEF Made
  <2> QED
    BY <1>1, <2>1, <2>2, PlaceKept
<1>2. CASE UNCHANGED vars
  BY <1>1, <1>2 DEF vars, runs, ports, tables
<1>3. ASSUME NEW q \in Routers, RouterStart(q)
      PROVE  PlaceInv(ip)'
  BY <1>3, PlaceStart
<1>4. ASSUME NEW q \in Routers, Router(q) \/ RouterDie(q)
      PROVE  PlaceInv(ip)'
  <2>1. CASE RouterConnect(q)
    BY <2>1, PlaceConnect
  <2>2. CASE ~RouterConnect(q)
    <3>1. /\ \A r \in Routers : r # q => router'[r] = router[r]
          /\ UNCHANGED <<backlog, connections, simulations>>
          /\ router'[q].pc = "dead" \/ \A l \in Links : Made(q, l)' <=> Made(q, l)
      BY <1>4, <2>2, RouterEffect DEF tables
    <3>2. \A r \in Routers, l \in Links : IpOf[r] = ip => (Made(r, l)' <=> Made(r, l))
      <4>1. IpOf[q] = ip => router'[q].pc # "dead"
        BY DEF Good, Dead, At
      <4> QED
        BY <3>1, <4>1 DEF Made
    <3>3. \A r \in Routers : Taken(r)' <=> Taken(r)
      BY <3>1 DEF Taken
    <3> QED
      BY <3>1, <3>2, <3>3, PlaceKept
  <2> QED
    BY <2>1, <2>2
<1>5. CASE ErrorAccept
  BY <1>1, <1>5 DEF ErrorAccept, runs
<1>6. ASSUME NEW l \in Links, LinkAccept(l)
      PROVE  PlaceInv(ip)'
  BY <1>6, AcceptEffect, PlaceAccept
<1>7. ASSUME NEW k \in DOMAIN simulations, Simulate(k)
      PROVE  PlaceInv(ip)'
  BY <1>1, <1>7, SimulateEffect DEF runs, ports, tables
<1> QED
  BY <1>2, <1>3, <1>4, <1>5, <1>6, <1>7 DEF Next

-----------------------------------------------------------------------------
(* Simulations are whole. *)

LEMMA WholeStep ==
  ASSUME IInv, OwnInv, [Next]_vars, NEW ip \in Ips, Good(ip),
         TurnInv(ip), PlaceInv(ip), WholeInv(ip)
  PROVE  WholeInv(ip)'
<1>1. ASSUME Len(simulations') = Len(simulations),
             \A k \in 1 .. Len(simulations) : /\ simulations'[k].ip = simulations[k].ip
                                              /\ simulations'[k].links = simulations[k].links
      PROVE  WholeInv(ip)'
  BY <1>1 DEF WholeInv
<1>2. CASE UNCHANGED simulations
  BY <1>1, <1>2
<1>3. ASSUME NEW k \in DOMAIN simulations, Simulate(k)
      PROVE  WholeInv(ip)'
  BY <1>1, <1>3, SimulateEffect
<1>4. ASSUME NEW l \in Links, LinkAccept(l)
      PROVE  WholeInv(ip)'
  <2>1. PICK q, vec : Accepts(l, q, vec)
    BY <1>4, AcceptEffect
  <2>2. /\ Len(simulations) \in Nat /\ Len(simulations') \in Nat /\ Len(simulations') >= Len(simulations)
        /\ \A k \in 1 .. Len(simulations) : simulations'[k] = simulations[k]
        /\ \A k \in 1 .. Len(simulations') :
             \/ k \in 1 .. Len(simulations)
             \/ /\ k = Len(simulations) + 1
                /\ connections[IpOf[q]].conn_count + 1 = ROUTER_LINK_COUNT
                /\ simulations'[k].ip = IpOf[q] /\ simulations'[k].links = vec
    BY <2>1, Typed, AcceptSimulations
  <2>3. ASSUME IpOf[q] = ip
        PROVE  ~Taken(q) /\ (connections[ip].conn_count + 1 = ROUTER_LINK_COUNT => vec = All(q))
    <3>1. /\ Made(q, l) /\ ~Taken(q) /\ connections[ip].conn_vec[l] = NoStream
          /\ Cardinality({m \in Links : vec[m] # NoStream}) = connections[ip].conn_count + 1
          /\ connections[ip].conn_count + 1 = ROUTER_LINK_COUNT =>
               vec = All(q) /\ \A m \in Links : m # l => Kept(q, m)
      BY <2>1, <2>3, AcceptHere
    <3> QED
      BY <3>1
  <2>4. ASSUME NEW k \in 1 .. Len(simulations'), k \notin 1 .. Len(simulations), simulations'[k].ip = ip
        PROVE  /\ k = Len(simulations) + 1 /\ q \in Routers /\ simulations'[k].links = All(q)
               /\ \A j \in 1 .. Len(simulations) : simulations[j].links # All(q)
    <3>1. /\ k = Len(simulations) + 1 /\ IpOf[q] = ip /\ simulations'[k].links = vec
          /\ connections[ip].conn_count + 1 = ROUTER_LINK_COUNT
      BY <2>2, <2>4
    <3>2. q \in Routers
      BY <2>1 DEF Accepts
    <3>3. ~Taken(q) /\ (connections[ip].conn_count + 1 = ROUTER_LINK_COUNT => vec = All(q))
      BY <2>3, <3>1
    <3> QED
      BY <3>1, <3>2, <3>3 DEF Taken
  <2>5. \A k \in 1 .. Len(simulations') :
          simulations'[k].ip = ip => \E r \in Routers : simulations'[k].links = All(r)
    BY <2>2, <2>4 DEF WholeInv
  <2>6. ASSUME NEW j \in 1 .. Len(simulations'), NEW k \in 1 .. Len(simulations'),
               simulations'[j].ip = ip, simulations'[k].ip = ip,
               simulations'[j].links = simulations'[k].links
        PROVE  j = k
    <3>1. CASE j \in 1 .. Len(simulations) /\ k \in 1 .. Len(simulations)
      BY <2>2, <2>6, <3>1 DEF WholeInv
    <3>2. CASE j \notin 1 .. Len(simulations) \/ k \notin 1 .. Len(simulations)
      BY <2>2, <2>4, <2>6, <3>2
    <3> QED
      BY <3>1, <3>2
  <2> QED
    BY <2>5, <2>6 DEF WholeInv
<1> QED
  BY <1>2, <1>3, <1>4 DEF Next, vars, RouterStart, Router, RouterConnect, RouterIdentify,
     RouterEnd, RouterCutOff, RouterDie, ErrorAccept

-----------------------------------------------------------------------------
(* The results find their run. *)

\* The stream of the last run to connect is accepted last.
LEMMA LatestAccept ==
  ASSUME IInv, ErrorAccept, NEW ip \in Ips, NEW r \in Routers, IpOf[r] = ip, Latest(ip, r)
  PROVE  Latest(ip, r)'
<1> DEFINE h    == Head(error_backlog)
           rest == Tail(error_backlog)
           n    == Len(error_backlog)
<1>1. /\ error_backlog \in Seq(Routers) /\ error_backlog # <<>> /\ n \in Nat /\ n >= 1
      /\ h \in Routers /\ h = error_backlog[1] /\ Len(rest) = n - 1
      /\ \A k \in 1 .. n - 1 : rest[k] = error_backlog[k + 1]
  <2>1. error_backlog \in Seq(Routers) /\ error_backlog # <<>>
    BY Typed DEF ErrorAccept
  <2> QED
    BY <2>1, HeadTailProperties, LenProperties, EmptySeq
<1>2. /\ error_backlog' = rest
      /\ streams'[IpOf[h]] = h /\ \A a \in Ips : a # IpOf[h] => streams'[a] = streams[a]
  <2>1. streams' = [streams EXCEPT ![IpOf[h]] = h] /\ error_backlog' = rest
    BY DEF ErrorAccept, Inserted
  <2> QED
    BY <1>1, <2>1, RouterAssumption DEF IInv, TypeOK
<1> HIDE DEF h, rest
<1>3. CASE streams[ip] = r /\ \A k \in 1 .. n : IpOf[error_backlog[k]] # ip
  <2>1. IpOf[h] # ip
    BY <1>1, <1>3
  <2>2. \A k \in 1 .. n - 1 : k + 1 \in 1 .. n
    BY <1>1
  <2>3. \A k \in 1 .. n - 1 : IpOf[rest[k]] # ip
    BY <1>1, <1>3, <2>2
  <2> QED
    BY <1>1, <1>2, <1>3, <2>1, <2>3 DEF Latest
<1>4. ASSUME NEW j \in 1 .. n, error_backlog[j] = r,
             \A k \in j + 1 .. n : IpOf[error_backlog[k]] # ip
      PROVE  Latest(ip, r)'
  <2>1. CASE j = 1
    <3>1. h = r /\ streams'[ip] = r
      BY <1>1, <1>2, <1>4, <2>1
    <3>2. \A k \in 1 .. n - 1 : k + 1 \in j + 1 .. n
      BY <1>1, <2>1
    <3>3. \A k \in 1 .. n - 1 : IpOf[rest[k]] # ip
      BY <1>1, <1>4, <3>2
    <3> QED
      BY <1>1, <1>2, <3>1, <3>3 DEF Latest
  <2>2. CASE j # 1
    <3>1. j - 1 \in 1 .. n - 1 /\ (j - 1) + 1 = j
      BY <1>1, <2>2
    <3>2. rest[j - 1] = r
      BY <1>1, <1>4, <3>1
    <3>3. \A k \in (j - 1) + 1 .. n - 1 : k \in 1 .. n - 1 /\ k + 1 \in j + 1 .. n
      BY <1>1, <2>2
    <3>4. \A k \in (j - 1) + 1 .. n - 1 : IpOf[rest[k]] # ip
      BY <1>1, <1>4, <3>3
    <3> QED
      BY <1>1, <1>2, <3>1, <3>2, <3>4 DEF Latest
  <2> QED
    BY <2>1, <2>2
<1> QED
  BY <1>3, <1>4 DEF Latest

\* A run that starts waits last at the error port.
LEMMA LatestStart ==
  ASSUME IInv, NEW q \in Routers, RouterStart(q), NEW ip \in Ips, Good(ip)', LatestInv(ip)
  PROVE  LatestInv(ip)'
<1> DEFINE n == Len(error_backlog)
<1>1. /\ \A r \in Routers : r # q => router'[r] = router[r]
      /\ error_backlog' = Append(error_backlog, q)
      /\ \A r \in Routers : Active(r) /\ IpOf[r] = IpOf[q] => IpOf[q] \in overlapped'
      /\ UNCHANGED streams
  BY StartEffect DEF tables
<1>2. /\ n \in Nat /\ Len(error_backlog') = n + 1 /\ error_backlog'[n + 1] = q
      /\ \A k \in 1 .. n : error_backlog'[k] = error_backlog[k]
  <2>1. error_backlog \in Seq(Routers) /\ n \in Nat
    BY Typed
  <2> QED
    BY <1>1, <2>1, AppendProperties
<1> HIDE DEF n
<1>3. CASE IpOf[q] = ip
  <2>1. \A r \in Routers : IpOf[r] = ip /\ Active(r)' => r = q
    BY <1>1, <1>3 DEF Good, Active
  <2>2. n + 1 \in 1 .. n + 1 /\ \A k \in (n + 1) + 1 .. n + 1 : FALSE
    BY <1>2
  <2>3. Latest(ip, q)'
    BY <1>2, <2>2 DEF Latest
  <2> QED
    BY <2>1, <2>3 DEF LatestInv
<1>4. CASE IpOf[q] # ip
  <2>1. \A r \in Routers : IpOf[r] = ip /\ Active(r)' => Active(r)
    BY <1>1, <1>4 DEF Active
  <2>2. \A k \in 1 .. n + 1 : k \in 1 .. n \/ k = n + 1
    BY <1>2
  <2>3. ASSUME NEW r \in Routers, Latest(ip, r)
        PROVE  Latest(ip, r)'
    <3>1. CASE streams[ip] = r /\ \A k \in 1 .. n : IpOf[error_backlog[k]] # ip
      <4>1. \A k \in 1 .. n + 1 : IpOf[error_backlog'[k]] # ip
        BY <1>2, <1>4, <2>2, <3>1
      <4> QED
        BY <1>1, <1>2, <3>1, <4>1 DEF Latest
    <3>2. ASSUME NEW j \in 1 .. n, error_backlog[j] = r,
                 \A k \in j + 1 .. n : IpOf[error_backlog[k]] # ip
          PROVE  Latest(ip, r)'
      <4>1. j \in 1 .. n + 1 /\ error_backlog'[j] = r
        BY <1>2, <3>2
      <4>2. \A k \in j + 1 .. n + 1 : (k \in 1 .. n /\ k \in j + 1 .. n) \/ k = n + 1
        BY <1>2
      <4>3. \A k \in j + 1 .. n + 1 : IpOf[error_backlog'[k]] # ip
        BY <1>2, <1>4, <3>2, <4>2
      <4> QED
        BY <1>2, <4>1, <4>3 DEF Latest
    <3> QED
      BY <2>3, <3>1, <3>2 DEF Latest, n
  <2> QED
    BY <2>1, <2>3 DEF LatestInv
<1> QED
  BY <1>3, <1>4

LEMMA LatestStep ==
  ASSUME IInv, [Next]_vars, NEW ip \in Ips, Good(ip)', LatestInv(ip)
  PROVE  LatestInv(ip)'
<1>1. ASSUME UNCHANGED <<streams, error_backlog>>,
             \A r \in Routers : Active(r)' => Active(r)
      PROVE  LatestInv(ip)'
  BY <1>1 DEF LatestInv, Latest
<1>2. CASE UNCHANGED <<streams, error_backlog, router>>
  BY <1>1, <1>2 DEF Active
<1>3. ASSUME NEW q \in Routers, RouterStart(q)
      PROVE  LatestInv(ip)'
  BY <1>3, LatestStart
<1>4. ASSUME NEW q \in Routers, Router(q) \/ RouterDie(q)
      PROVE  LatestInv(ip)'
  <2>1. /\ Active(q) /\ \A r \in Routers : r # q => router'[r] = router[r]
        /\ UNCHANGED <<streams, error_backlog>>
    BY <1>4, RouterEffect DEF tables
  <2> QED
    BY <1>1, <2>1 DEF Active
<1>5. CASE ErrorAccept
  <2>1. \A r \in Routers : Active(r)' => Active(r)
    BY <1>5 DEF ErrorAccept, runs, Active
  <2> QED
    BY <1>5, <2>1, LatestAccept DEF LatestInv
<1> QED
  BY <1>2, <1>3, <1>4, <1>5 DEF Next, vars, runs, ports, tables, LinkAccept, Simulate, Validate,
     ValidateFails, CycleFails, Report, Tell

\* The run of a simulation that has yet to report is still there.
LEMMA SimulatedActive ==
  ASSUME IInv, OwnInv, NEW ip \in Ips, Good(ip), PlaceInv(ip), WholeInv(ip),
         NEW k \in 1 .. Len(simulations), simulations[k].ip = ip, simulations[k].pc # "over",
         NEW r \in Routers, simulations[k].links = All(r)
  PROVE  IpOf[r] = ip /\ Active(r)
<1>1. 0 \in Links /\ All(r)[0] = r
  BY LinkFacts DEF All
<1>2. IpOf[r] = ip
  BY <1>1 DEF OwnInv, LinksOwn
<1>3. Taken(r)
  BY DEF Taken
<1>4. Made(r, 0)
  BY <1>1, <1>2, <1>3 DEF PlaceInv
<1>5. ASSUME router[r].pc = "done"
      PROVE  FALSE
  <2>1. <<r, 0>> \in ended
    BY <1>1, <1>5 DEF OwnInv, DoneEnded
  <2>2. PICK j \in 1 .. Len(simulations) : simulations[j].links[0] = r /\ simulations[j].pc = "over"
    BY <1>1, <2>1 DEF OwnInv, EndedOver
  <2>3. simulations[j].ip = ip
    BY <1>1, <1>2, <2>2 DEF OwnInv, LinksOwn
  <2>4. PICK q \in Routers : simulations[j].links = All(q)
    BY <2>3 DEF WholeInv
  <2>5. q = r
    BY <1>1, <2>2, <2>4 DEF All
  <2>6. j = k
    BY <2>3, <2>4, <2>5 DEF WholeInv
  <2> QED
    BY <2>2, <2>6
<1> QED
  BY <1>2, <1>4, <1>5 DEF Made, Active

LEMMA ResultStep ==
  ASSUME IInv, OwnInv, [Next]_vars, NEW ip \in Ips, Good(ip),
         PlaceInv(ip), WholeInv(ip), LatestInv(ip), ResultInv(ip)
  PROVE  ResultInv(ip)'
<1>0. /\ results \subseteq (1 .. Len(simulations)) \X Routers
      /\ Len(simulations) \in Nat /\ DOMAIN simulations = 1 .. Len(simulations)
  BY Typed DEF TypeOK
<1>1. ASSUME UNCHANGED results, Len(simulations') = Len(simulations),
             \A k \in 1 .. Len(simulations) : /\ simulations'[k].ip = simulations[k].ip
                                              /\ simulations'[k].links = simulations[k].links
      PROVE  ResultInv(ip)'
  BY <1>1 DEF ResultInv
<1>2. CASE UNCHANGED <<simulations, results>>
  BY <1>1, <1>2
<1>3. ASSUME NEW k \in DOMAIN simulations, Simulate(k)
      PROVE  ResultInv(ip)'
  <2>1. /\ k \in 1 .. Len(simulations) /\ Len(simulations') = Len(simulations)
        /\ \A n \in 1 .. Len(simulations) : /\ simulations'[n].ip = simulations[n].ip
                                            /\ simulations'[n].links = simulations[n].links
    BY <1>3, SimulateEffect
  <2>2. CASE UNCHANGED results
    BY <1>1, <2>1, <2>2
  <2>3. CASE results' # results
    <3>1. /\ simulations[k].pc = "report" /\ error_backlog = <<>>
          /\ results' = results \cup {<<k, streams[simulations[k].ip]>>}
      <4>1. Report(k)
        BY <1>3, <2>3 DEF Simulate, Validate, ValidateFails, CycleFails, Tell, ends
      <4> QED
        BY <2>3, <4>1 DEF Report, PromptAccept
    <3>2. ASSUME simulations[k].ip = ip, NEW r \in Routers, streams[ip] = r
          PROVE  simulations[k].links = All(r)
      <4>1. PICK q \in Routers : simulations[k].links = All(q)
        BY <2>1, <3>2 DEF WholeInv
      <4>2. IpOf[q] = ip /\ Active(q)
        BY <2>1, <3>1, <3>2, <4>1, SimulatedActive
      <4>3. Latest(ip, q)
        BY <4>2 DEF LatestInv
      <4>4. streams[ip] = q
        <5>1. Len(error_backlog) = 0
          BY <3>1
        <5> QED
          BY <4>3, <5>1 DEF Latest
      <4> QED
        BY <3>2, <4>1, <4>4
    <3>3. ASSUME NEW n \in 1 .. Len(simulations'), NEW r \in Routers,
                 simulations'[n].ip = ip, <<n, r>> \in results'
          PROVE  simulations'[n].links = All(r)
      <4>1. simulations[n].ip = ip /\ simulations'[n].links = simulations[n].links
        BY <2>1, <3>3
      <4>2. CASE <<n, r>> \in results
        BY <2>1, <4>1, <4>2 DEF ResultInv
      <4>3. CASE <<n, r>> \notin results
        <5>1. n = k /\ r = streams[simulations[k].ip]
          BY <3>1, <3>3, <4>3
        <5> QED
          BY <3>2, <4>1, <5>1
      <4> QED
        BY <4>2, <4>3
    <3> QED
      BY <3>3 DEF ResultInv
  <2> QED
    BY <2>2, <2>3
<1>4. ASSUME NEW l \in Links, LinkAccept(l)
      PROVE  ResultInv(ip)'
  <2>1. PICK q, vec : Accepts(l, q, vec)
    BY <1>4, AcceptEffect
  <2>2. /\ \A k \in 1 .. Len(simulations) : simulations'[k] = simulations[k]
        /\ UNCHANGED results
    BY <2>1, AcceptSimulations DEF Accepts
  <2>3. \A k, r : <<k, r>> \in results => k \in 1 .. Len(simulations)
    BY <1>0
  <2> QED
    BY <2>2, <2>3 DEF ResultInv
<1> QED
  BY <1>2, <1>3, <1>4 DEF Next, vars, ends, RouterStart, Router, RouterConnect, RouterIdentify,
     RouterEnd, RouterCutOff, RouterDie, ErrorAccept

-----------------------------------------------------------------------------
(* Links are closed after the end. *)

LEMMA ClosedStep ==
  ASSUME IInv, OwnInv, [Next]_vars, NEW ip \in Ips, Good(ip),
         TurnInv(ip), PlaceInv(ip), WholeInv(ip), ClosedInv(ip)
  PROVE  ClosedInv(ip)'
<1>1. CASE UNCHANGED <<ended, closed>>
  BY <1>1 DEF ClosedInv
<1>2. ASSUME NEW k \in DOMAIN simulations, Simulate(k)
      PROVE  ClosedInv(ip)'
  <2> DEFINE links == simulations[k].links
  <2>1. CASE Validate(k) \/ Report(k)
    <3>1. UNCHANGED <<ended, closed>>
      BY <2>1 DEF Validate, Report, ends
    <3> QED
      BY <1>1, <3>1
  <2>2. CASE Tell(k)
    <3>1. ended' = ended \cup Conns(links) /\ closed' = closed \cup Conns(links)
      BY <2>2 DEF Tell
    <3> QED
      BY <3>1 DEF ClosedInv
  <2>3. CASE ValidateFails(k) \/ CycleFails(k)
    <3>1. /\ k \in 1 .. Len(simulations) /\ simulations[k].i \in Links
          /\ UNCHANGED ended /\ closed' \subseteq closed \cup Conns(links)
      <4>1. simulations[k] \in Simulated /\ k \in 1 .. Len(simulations)
        BY Typed
      <4>2. UNCHANGED ended /\ closed' \subseteq closed \cup Conns(links)
        BY <2>3 DEF ValidateFails, CycleFails
      <4> QED
        BY <4>1, <4>2 DEF Simulated
    <3>2. \E l \in Links : Dead(links[l])
      BY <2>3, <3>1 DEF ValidateFails, CycleFails
    <3>3. ASSUME NEW r \in Routers, IpOf[r] = ip, NEW l \in Links, <<r, l>> \in Conns(links)
          PROVE  FALSE
      <4>1. links[l] = r
        BY <3>3 DEF Conns
      <4>2. simulations[k].ip = ip
        BY <3>1, <3>3, <4>1 DEF OwnInv, LinksOwn
      <4>3. PICK q \in Routers : links = All(q)
        BY <3>1, <4>2 DEF WholeInv
      <4>4. q = r /\ \A m \in Links : links[m] = r
        BY <4>1, <4>3 DEF All
      <4> QED
        BY <3>2, <3>3, <4>4 DEF Good
    <3> QED
      BY <3>1, <3>3 DEF ClosedInv
  <2> QED
    BY <1>2, <2>1, <2>2, <2>3 DEF Simulate
<1>3. ASSUME NEW l \in Links, LinkAccept(l)
      PROVE  ClosedInv(ip)'
  <2>1. PICK q, vec : Accepts(l, q, vec)
    BY <1>3, AcceptEffect
  <2>2. /\ UNCHANGED ended /\ q \in Routers /\ IpOf[q] \in Ips
        /\ \A m \in Links : vec[m] = IF m = l THEN q ELSE connections[IpOf[q]].conn_vec[m]
        /\ \A c \in closed' \ closed :
             \/ c = <<connections[IpOf[q]].conn_vec[l], l>> /\ c[1] # NoStream
             \/ /\ c \in Conns(vec) /\ connections[IpOf[q]].conn_count + 1 = ROUTER_LINK_COUNT
                /\ ~Whole(vec)
    BY <2>1 DEF Accepts
  <2>3. ASSUME IpOf[q] = ip
        PROVE  /\ connections[ip].conn_vec[l] = NoStream
               /\ connections[ip].conn_count + 1 = ROUTER_LINK_COUNT => vec = All(q)
    <3>1. /\ Made(q, l) /\ ~Taken(q) /\ connections[ip].conn_vec[l] = NoStream
          /\ Cardinality({m \in Links : vec[m] # NoStream}) = connections[ip].conn_count + 1
          /\ connections[ip].conn_count + 1 = ROUTER_LINK_COUNT =>
               vec = All(q) /\ \A m \in Links : m # l => Kept(q, m)
      BY <2>1, <2>3, AcceptHere
    <3> QED
      BY <3>1
  <2>4. ASSUME NEW r \in Routers, IpOf[r] = ip, NEW m \in Links, <<r, m>> \in closed' \ closed
        PROVE  FALSE
    <3>1. CASE <<r, m>> = <<connections[IpOf[q]].conn_vec[l], l>>
      <4>1. connections[IpOf[q]].conn_vec[l] = r
        BY <3>1
      <4>2. IpOf[q] = ip
        BY <2>2, <2>4, <4>1 DEF OwnInv, TableOwn
      <4> QED
        BY <2>3, <2>4, <4>1, <4>2, RouterAssumption
    <3>2. CASE /\ <<r, m>> \in Conns(vec) /\ connections[IpOf[q]].conn_count + 1 = ROUTER_LINK_COUNT
               /\ ~Whole(vec)
      <4>1. vec[m] = r
        BY <3>2 DEF Conns
      <4>2. IpOf[q] = ip
        BY <2>2, <2>4, <4>1 DEF OwnInv, TableOwn
      <4>3. vec = All(q)
        BY <2>3, <3>2, <4>2
      <4> QED
        BY <2>2, <3>2, <4>3, RouterAssumption DEF Whole, All
    <3> QED
      BY <2>2, <2>4, <3>1, <3>2
  <2> QED
    BY <2>2, <2>4 DEF ClosedInv
<1> QED
  BY <1>1, <1>2, <1>3 DEF Next, vars, ends, RouterStart, Router, RouterConnect, RouterIdentify,
     RouterEnd, RouterCutOff, RouterDie, ErrorAccept

-----------------------------------------------------------------------------
(* The theorems about addresses in good use. *)

LEMMA GoodInit == Init => OwnInv /\ GoodInv
<1> SUFFICES ASSUME Init PROVE OwnInv /\ GoodInv
  OBVIOUS
<1>1. /\ \A r \in Routers : router[r].pc = "off"
      /\ \A ip \in Ips : connections[ip] = NoEntry
      /\ \A l \in Links : backlog[l] = <<>> /\ Len(backlog[l]) = 0
      /\ simulations = <<>> /\ Len(simulations) = 0
      /\ results = {} /\ ended = {} /\ closed = {}
  BY DEF Init
<1>2. /\ NoEntry.conn_count = 0 /\ \A l \in Links : NoEntry.conn_vec[l] = NoStream
      /\ {l \in Links : NoEntry.conn_vec[l] # NoStream} = {}
  BY DEF NoEntry
<1>3. TableOwn /\ LinksOwn
  BY <1>1, <1>2, RouterAssumption DEF TableOwn, LinksOwn
<1>4. EndedOver /\ DoneEnded
  BY <1>1 DEF EndedOver, DoneEnded
<1>5. ASSUME NEW ip \in Ips
      PROVE  InUseInv(ip)
  <2>1. TurnInv(ip) /\ LatestInv(ip) /\ ResultInv(ip)
    BY <1>1 DEF TurnInv, LatestInv, ResultInv, Active
  <2>2. WholeInv(ip) /\ ClosedInv(ip)
    BY <1>1 DEF WholeInv, ClosedInv
  <2>3. PlaceInv(ip)
    <3>1. \A r \in Routers, l \in Links : ~Waiting(r, l) /\ ~Kept(r, l) /\ ~Taken(r)
      BY <1>1, <1>2, RouterAssumption DEF Waiting, Kept, Taken
    <3>2. connections[ip].conn_count = Cardinality({l \in Links : connections[ip].conn_vec[l] # NoStream})
      BY <1>1, <1>2, FS_EmptySet
    <3> QED
      BY <1>1, <3>1, <3>2 DEF PlaceInv
  <2> QED
    BY <2>1, <2>2, <2>3 DEF InUseInv
<1> QED
  BY <1>3, <1>4, <1>5 DEF OwnInv, GoodInv

LEMMA GoodStep == IInv /\ OwnInv /\ GoodInv /\ [Next]_vars => GoodInv'
<1> SUFFICES ASSUME IInv, OwnInv, GoodInv, [Next]_vars, NEW ip \in Ips, Good(ip)'
             PROVE  InUseInv(ip)'
  BY DEF GoodInv
<1>1. Good(ip)
  BY GoodStays
<1>2. /\ TurnInv(ip) /\ PlaceInv(ip) /\ WholeInv(ip)
      /\ LatestInv(ip) /\ ResultInv(ip) /\ ClosedInv(ip)
  BY <1>1 DEF GoodInv, InUseInv
<1>3. TurnInv(ip)'
  BY <1>2, TurnStep
<1>4. PlaceInv(ip)'
  BY <1>1, <1>2, PlaceStep
<1>5. WholeInv(ip)'
  BY <1>1, <1>2, WholeStep
<1>6. LatestInv(ip)'
  BY <1>2, LatestStep
<1>7. ResultInv(ip)'
  BY <1>1, <1>2, ResultStep
<1>8. ClosedInv(ip)'
  BY <1>1, <1>2, ClosedStep
<1> QED
  BY <1>3, <1>4, <1>5, <1>6, <1>7, <1>8 DEF InUseInv

LEMMA GoodInvariance == Spec => [](IInv /\ OwnInv /\ GoodInv)
<1>1. Init => IInv /\ OwnInv /\ GoodInv
  BY InitInv, GoodInit
<1>2. IInv /\ OwnInv /\ GoodInv /\ [Next]_vars => (IInv /\ OwnInv /\ GoodInv)'
  BY StepInv, OwnStep, GoodStep
<1> QED
  BY <1>1, <1>2, PTL DEF Spec

\* Whatever happens at other addresses, at one in good use a simulation has
\* every link, and all of one run.
THEOREM SimulationsAreWhole == Spec => []WholeSimulations
<1>1. IInv /\ GoodInv => WholeSimulations
  <2> SUFFICES ASSUME IInv, GoodInv, NEW k \in DOMAIN simulations, Good(simulations[k].ip)
               PROVE  \E r \in Routers : simulations[k].links = [l \in Links |-> r]
    BY DEF WholeSimulations
  <2>1. k \in 1 .. Len(simulations) /\ simulations[k].ip \in Ips
    BY Typed DEF Simulated
  <2> QED
    BY <2>1 DEF GoodInv, InUseInv, WholeInv, All
<1> QED
  BY <1>1, GoodInvariance, PTL

\* The results of a simulation go to the run that was simulated, also when an
\* earlier run at the address had left its stream in the table.
THEOREM ResultsFindTheirRun == Spec => []ResultsReachTheirRouter
<1>1. IInv /\ GoodInv => ResultsReachTheirRouter
  <2> SUFFICES ASSUME IInv, GoodInv, NEW k \in DOMAIN simulations, NEW r \in Routers,
                      <<k, r>> \in results, Good(simulations[k].ip)
               PROVE  simulations[k].links = [l \in Links |-> r]
    BY DEF ResultsReachTheirRouter
  <2>1. k \in 1 .. Len(simulations) /\ simulations[k].ip \in Ips
    BY Typed DEF Simulated
  <2> QED
    BY <2>1 DEF GoodInv, InUseInv, ResultInv, All
<1> QED
  BY <1>1, GoodInvariance, PTL

\* No router at an address in good use loses a link before ERR or END went
\* out on it, whatever the others do.
THEOREM LinksLastToTheEnd == Spec => []ClosedAfterTheEnd
<1>1. IInv /\ GoodInv => ClosedAfterTheEnd
  <2> SUFFICES ASSUME GoodInv, NEW r \in Routers, NEW l \in Links,
                      <<r, l>> \in closed, <<r, l>> \notin ended, Good(IpOf[r])
               PROVE  FALSE
    BY DEF ClosedAfterTheEnd
  <2>1. IpOf[r] \in Ips
    BY RouterAssumption
  <2> QED
    BY <2>1 DEF GoodInv, InUseInv, ClosedInv
<1> QED
  BY <1>1, GoodInvariance, PTL
=============================================================================
