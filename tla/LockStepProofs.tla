--------------------------- MODULE LockStepProofs ---------------------------
(***************************************************************************)
(* The router fed one packet at a time (LockStepSpec), for every number of *)
(* subnets and links, every link table and every set of commands: its      *)
(* table is the best of all offers, its count is right, its neighbours     *)
(* know it, and all of that because it implements RouteTable.              *)
(***************************************************************************)
EXTENDS RouterProofs, FiniteSetTheorems

\* A call works on a command a neighbour sent; until it updates the table it
\* stands at the first entry and has changed nothing.
StartInv(t) ==
  /\ pc[t] # "idle" => frame[t].cmd \in Commands
  /\ pc[t] \in {"idle", "check", "stamp"} => frame[t].i = 1 /\ ~frame[t].changed

\* What the stores of dv_set_entry() have done so far.
StoreInv(t) ==
  /\ pc[t] \in {"cost", "hop"} => dv[Entry(t).dest_subnet].is_valid
  /\ pc[t] = "hop" => dv[Entry(t).dest_subnet].cost = Offer(t)

\* The valid slots, and what the counter says of them during a store.
ValidSlots == {s \in Subnets : dv[s].is_valid}
CountInv ==
  /\ \A t \in AllLinks :
       /\ pc[t] = "bump" => /\ Entry(t).dest_subnet \notin ValidSlots
                            /\ frame[t].count = dv_entry_count
       /\ pc[t] = "valid" =>
            dv_entry_count = Cardinality(ValidSlots \cup {Entry(t).dest_subnet})
  /\ (\A t \in AllLinks : pc[t] # "valid") => dv_entry_count = Cardinality(ValidSlots)

\* A slot holds an offer or its initial route, and nothing known is cheaper
\* but what is still to do.
SlotInv(tbl, todo, off, s) ==
  /\ tbl[s].is_valid =>
       \/ tbl[s] = InitialEntry(s)
       \/ tbl[s].next_hop_link \in Links /\ <<s, tbl[s].cost>> \in off[tbl[s].next_hop_link]
  /\ InitialEntry(s).is_valid => tbl[s].is_valid /\ tbl[s].cost <= InitialEntry(s).cost
  /\ \A l \in Links : \A c \in Byte :
       <<s, c>> \in off[l] =>
         (tbl[s].is_valid /\ tbl[s].cost <= c) \/ <<s, c>> \in todo

\* The table, or the table with the store under way finished, is best.
BestInv ==
  \A s \in Subnets :
    /\ Updating = {} => SlotInv(dv, {}, offered, s)
    /\ \A t \in Updating : SlotInv(StoreDone(t), Offers(Rest(t), t), offered, s)

\* The links up to l work, and what the neighbour on l was last told.
Works(l)    == \A k \in 0 .. l : up[k]
Informed(l) == \/ CostsIn(view[l]) = Costs(dv)
               \/ view[l] = <<>> /\ Costs(dv) = Costs(InitialTable)

\* A call that has changed nothing, nor is about to.
Quiet(t) == \/ pc[t] \in {"idle", "check", "stamp"}
            \/ pc[t] = "compare" /\ ~frame[t].changed

\* The part of the table a call has copied, and the links it has served.
CopyInv(t) ==
  /\ pc[t] = "scan" =>
       CostsIn(frame[t].out) = {<<s, dv[s].cost>> : s \in {d \in Subnets : dv[d].is_valid /\ d < frame[t].i}}
  /\ pc[t] = "send" =>
       /\ CostsIn(frame[t].out) = Costs(dv)
       /\ \A l \in Links : l < frame[t].i /\ Works(l) => CostsIn(view[l]) = Costs(dv)

ToldInv ==
  (\A t \in AllLinks : Quiet(t)) => \A l \in Links : Works(l) => Informed(l)

StepsInv ==
  /\ LockInv
  /\ \A t \in AllLinks : StartInv(t) /\ StoreInv(t)

-----------------------------------------------------------------------------
(* One call at a time. *)

\* While a call runs, or a packet is received, the other threads wait.
LEMMA Lone ==
  ASSUME LockInv, NEW t \in AllLinks, Work(t) \/ (AllIdle /\ Receive(t)),
         NEW u \in AllLinks, u # t
  PROVE  pc[u] = "idle" /\ pc'[u] = "idle" /\ frame'[u] = frame[u]
<1>1. pc[u] = "idle"
  BY DEF LockInv, AllIdle, Work, DropOutdated, PassTimestamp, StoreTimestamp,
         CompareEntry, CountEntry, BumpCount, SetValid, SetCost, SetHop, EndUpdate,
         ScanEntry, SendTable, SendBroken, At
<1> QED
  BY <1>1, OthersKept DEF LockInv, IInv

\* Only a netsim link's thread is in a call.
LEMMA WorkOnLink ==
  ASSUME LockInv, NEW t \in AllLinks, Work(t)
  PROVE  t \in Links /\ frame[t] \in Frame /\ pc[t] # "idle"
BY DEF LockInv, IInv, TypeOK, CallInv, Work, DropOutdated, PassTimestamp, StoreTimestamp,
       CompareEntry, CountEntry, BumpCount, SetValid, SetCost, SetHop, EndUpdate,
       ScanEntry, SendTable, SendBroken, At

\* A received data or corrupt packet changes the event only; a command
\* starts a call.
LEMMA ReceiveEffect ==
  ASSUME LockInv, NEW t \in AllLinks, Receive(t)
  PROVE  /\ UNCHANGED <<table, net, view, offered>>
         /\ \/ UNCHANGED stack
            \/ /\ t \in Links /\ pc[t] = "idle" /\ pc'[t] = "check"
               /\ \E c \in Commands : frame'[t] = [frame[t] EXCEPT !.cmd = c]
<1>0. pc \in [AllLinks -> Locations] /\ frame \in [AllLinks -> Frame]
  BY DEF LockInv, IInv, TypeOK
<1>1. CASE RecvCommand(t)
  <2>1. t \in Links /\ pc'[t] = "check" /\ pc[t] = "idle"
    BY <1>0, <1>1 DEF Receive, RecvCommand
  <2>2. PICK c \in Commands : frame' = [frame EXCEPT ![t].cmd = c]
    BY <1>1 DEF RecvCommand
  <2>3. frame'[t] = [frame[t] EXCEPT !.cmd = c]
    BY <1>0, <2>2
  <2> QED
    BY <1>1, <2>1, <2>3 DEF RecvCommand
<1> QED
  BY <1>1 DEF Receive, RecvCorrupt, RecvData, DeliverToApp, DropExpired,
              ForwardData, LoseData, DropNoRoute

\* A failure changes no table and no call.
LEMMA FailEffect ==
  ASSUME NEW t \in AllLinks, Fail(t)
  PROVE  UNCHANGED <<table, stack, view, offered>>
BY DEF Fail, LinkBreak, ReadBroken

\* The calls know what they have done when main() starts.
LEMMA InitSteps == Init => StepsInv
<1> SUFFICES ASSUME Init PROVE StepsInv
  OBVIOUS
<1>1. LockInv
  BY InitInv DEF LockInv, Init
<1>2. ASSUME NEW t \in AllLinks PROVE StartInv(t) /\ StoreInv(t)
  BY DEF Init, StartInv, StoreInv, EmptyFrame
<1> QED
  BY <1>1, <1>2 DEF StepsInv

\* A step keeps what a call knows of itself.
LEMMA StepsStep ==
  ASSUME StepsInv, [LockStepNext]_vars
  PROVE  StepsInv'
<1>0. LockInv /\ LockInv' /\ TypeOK /\ TypeOK' /\ \A u \in AllLinks : CallInv(u) /\ StartInv(u) /\ StoreInv(u)
  BY LockStepInv DEF StepsInv, LockInv, IInv
<1>1. ASSUME NEW u \in AllLinks, pc'[u] = pc[u], frame'[u] = frame[u],
             dv' = dv \/ pc[u] = "idle"
      PROVE  StartInv(u)' /\ StoreInv(u)'
  BY <1>0, <1>1 DEF StartInv, StoreInv, Entry, Offer
<1>2. ASSUME NEW t \in AllLinks, Work(t)
      PROVE  StartInv(t)' /\ StoreInv(t)'
  <2>0. t \in Links /\ frame[t] \in Frame
    BY <1>0, <1>2, WorkOnLink
  <2> USE DEF At, Goto
  <2>1. ASSUME Return(t) PROVE StartInv(t)' /\ StoreInv(t)'
    BY <1>0, <2>1 DEF Return, EmptyFrame, StartInv, StoreInv, TypeOK
  <2>2. ASSUME pc'[t] \in {"compare", "count", "bump", "valid", "scan", "send"}, frame'[t].cmd = frame[t].cmd, pc[t] # "idle"
        PROVE  StartInv(t)' /\ StoreInv(t)'
    BY <1>0, <2>2 DEF StartInv, StoreInv
  <2>3. CASE DropOutdated(t)
    BY <2>1, <2>3 DEF DropOutdated
  <2>4. CASE PassTimestamp(t)
    BY <1>0, <2>4 DEF PassTimestamp, StartInv, StoreInv, TypeOK
  <2>5. CASE StoreTimestamp(t)
    BY <1>0, <2>2, <2>5 DEF StoreTimestamp, TypeOK
  <2>6. CASE CompareEntry(t)
    BY <1>0, <2>0, <2>2, <2>6 DEF CompareEntry, TypeOK, Frame
  <2>7. CASE CountEntry(t)
    BY <1>0, <2>0, <2>2, <2>7 DEF CountEntry, TypeOK, Frame
  <2>8. CASE BumpCount(t)
    BY <1>0, <2>2, <2>8 DEF BumpCount, TypeOK
  <2>9. CASE SetValid(t)
    <3>1. Entry(t).dest_subnet \in Subnets /\ pc[t] = "valid"
      BY <1>0, <2>9 DEF SetValid, CallInv, Writing
    <3>2. dv'[Entry(t).dest_subnet].is_valid = TRUE
      BY <1>0, <2>9, <3>1 DEF SetValid, TypeOK, RouteEntry
    <3> QED
      BY <1>0, <2>9, <3>1, <3>2 DEF SetValid, StartInv, StoreInv, Entry, TypeOK
  <2>10. CASE SetCost(t)
    <3>1. Entry(t).dest_subnet \in Subnets /\ pc[t] = "cost"
      BY <1>0, <2>10 DEF SetCost, CallInv, Writing
    <3>2. /\ dv'[Entry(t).dest_subnet].is_valid = dv[Entry(t).dest_subnet].is_valid
          /\ dv'[Entry(t).dest_subnet].cost = Offer(t)
      BY <1>0, <2>10, <3>1 DEF SetCost, TypeOK, RouteEntry
    <3> QED
      BY <1>0, <2>10, <3>1, <3>2 DEF SetCost, StartInv, StoreInv, Entry, Offer, TypeOK
  <2>11. CASE SetHop(t)
    BY <1>0, <2>0, <2>2, <2>11 DEF SetHop, TypeOK, Frame
  <2>12. CASE EndUpdate(t)
    BY <1>0, <2>0, <2>1, <2>2, <2>12 DEF EndUpdate, TypeOK, Frame
  <2>13. CASE ScanEntry(t)
    BY <1>0, <2>0, <2>2, <2>13 DEF ScanEntry, TypeOK, Frame
  <2>14. CASE NextLink(t) /\ pc[t] = "send"
    BY <1>0, <2>0, <2>1, <2>2, <2>14 DEF NextLink, TypeOK, Frame
  <2>15. CASE pc'[t] = pc[t] /\ pc[t] = "send" /\ frame'[t] = frame[t]
    BY <2>2, <2>15
  <2>16. CASE SendTable(t) \/ SendBroken(t)
    BY <2>1, <2>14, <2>15, <2>16 DEF SendTable, SendBroken, stack
  <2> QED
    BY <1>2, <2>3, <2>4, <2>5, <2>6, <2>7, <2>8, <2>9, <2>10, <2>11, <2>12, <2>13,
       <2>16 DEF Work
<1>3. ASSUME NEW t \in AllLinks, Work(t), NEW u \in AllLinks
      PROVE  StartInv(u)' /\ StoreInv(u)'
  BY <1>0, <1>1, <1>2, <1>3, Lone
<1>4. ASSUME NEW t \in AllLinks, AllIdle /\ Receive(t), NEW u \in AllLinks
      PROVE  StartInv(u)' /\ StoreInv(u)'
  <2>1. CASE u # t
    BY <1>0, <1>1, <1>4, <2>1, Lone
  <2>2. CASE u = t
    <3>1. CASE UNCHANGED stack
      BY <1>0, <1>1, <1>4, <2>2, <3>1 DEF stack, AllIdle
    <3>2. ASSUME NEW c \in Commands, frame'[t] = [frame[t] EXCEPT !.cmd = c], pc'[t] = "check", pc[t] = "idle"
          PROVE  StartInv(u)' /\ StoreInv(u)'
      BY <1>0, <2>2, <3>2 DEF StartInv, StoreInv, TypeOK, Frame
    <3> QED
      BY <1>0, <1>4, <3>1, <3>2, ReceiveEffect
  <2> QED
    BY <2>1, <2>2
<1>5. ASSUME NEW t \in AllLinks, Fail(t), NEW u \in AllLinks
      PROVE  StartInv(u)' /\ StoreInv(u)'
  BY <1>1, <1>5, FailEffect DEF stack, table
<1>6. CASE UNCHANGED vars
  BY <1>0, <1>1, <1>6 DEF vars, stack, table, StepsInv
<1> QED
  BY <1>0, <1>3, <1>4, <1>5, <1>6 DEF LockStepNext, StepsInv

\* The calls know what they have done at all times.
LEMMA StepsKept == LockStepSpec => []StepsInv
BY InitSteps, StepsStep, PTL DEF LockStepSpec

-----------------------------------------------------------------------------
(* Data packets. *)

\* The strengthened invariant: a packet that was forwarded went where its
\* subnet had been offered.
ForwardInv == StepsInv /\ ForwardedWhereOffered

\* A packet finds no route half stored.
LEMMA ForwardStep ==
  ASSUME StepsInv, ForwardedWhereOffered, [LockStepNext]_vars
  PROVE  ForwardedWhereOffered'
<1>0. IInv /\ TypeOK /\ \A s \in Subnets : RouteInv(s)
  BY DEF StepsInv, LockInv, IInv
<1>1. CASE event'.kind # "forward"
  BY <1>1 DEF ForwardedWhereOffered
<1>2. CASE UNCHANGED vars
  BY <1>2 DEF vars, ForwardedWhereOffered
<1>3. ASSUME NEW t \in AllLinks, Work(t) \/ Fail(t)
      PROVE  event'.kind # "forward"
  BY <1>3
     DEF Work, DropOutdated, PassTimestamp, StoreTimestamp, CompareEntry,
         CountEntry, BumpCount, SetValid, SetCost, SetHop, EndUpdate, ScanEntry,
         SendTable, SendBroken, Fail, LinkBreak, ReadBroken, NoEvent, Dropped
<1>4. ASSUME AllIdle, NEW p \in DataPackets, ForwardData(p)
      PROVE  ForwardedWhereOffered'
  <2> DEFINE s == SUBNET(p.dest)
  <2>1. s \in Subnets
    <3>1. p.dest \in 0 .. 4 * SUBNET_ADDRESS_MAX - 1
      BY PacketAssumption DEF DataPacket, Addresses
    <3> QED
      BY <3>1, SizeAssumption DEF SUBNET, Subnets
  <2>2. /\ event' = Forwarded(s, dv[s].next_hop_link, p.ttl - 1)
        /\ dv[s].is_valid /\ dv[s].next_hop_link \in Links /\ offered' = offered
    BY <1>4 DEF ForwardData, Reachable
  <2>3. \/ dv[s] = InitialEntry(s)
        \/ \E c \in Byte : <<s, c>> \in offered[dv[s].next_hop_link]
    BY <1>0, <1>4, <2>1, ConstantFacts DEF RouteInv, AllIdle
  <2> HIDE DEF s
  <2> QED
    BY <2>2, <2>3 DEF Forwarded, ForwardedWhereOffered
<1>5. ASSUME NEW t \in AllLinks, AllIdle /\ Receive(t)
      PROVE  ForwardedWhereOffered'
  <2>1. CASE RecvCorrupt(t) \/ RecvCommand(t)
    BY <1>1, <2>1 DEF RecvCorrupt, RecvCommand, NoEvent, Dropped
  <2>2. ASSUME NEW p \in DataPackets,
               DeliverToApp(p) \/ DropExpired(p) \/ LoseData(p) \/ DropNoRoute(p)
        PROVE  ForwardedWhereOffered'
    BY <1>1, <2>2 DEF DeliverToApp, DropExpired, LoseData, DropNoRoute, Dropped, Lost,
                      ToApplication
  <2> QED
    BY <1>4, <1>5, <2>1, <2>2 DEF Receive, RecvData
<1> QED
  BY <1>1, <1>2, <1>3, <1>5 DEF LockStepNext

\* A data packet goes out on the link of its subnet's initial route or on
\* one that offered the subnet, never on the link 0 of a half-made entry.
THEOREM ForwardsWhereOffered == LockStepSpec => []ForwardedWhereOffered
<1>1. Init => ForwardInv
  BY InitSteps DEF ForwardInv, ForwardedWhereOffered, Init, NoEvent
<1>2. ForwardInv /\ [LockStepNext]_vars => ForwardInv'
  BY StepsStep, ForwardStep DEF ForwardInv
<1>3. ForwardInv => ForwardedWhereOffered
  BY DEF ForwardInv
<1> QED
  BY <1>1, <1>2, <1>3, PTL DEF LockStepSpec

-----------------------------------------------------------------------------
(* The counter of valid entries. *)

\* The set of valid slots is finite, and small enough for the byte.
LEMMA SlotsFinite ==
  ASSUME NEW S \in SUBSET Subnets
  PROVE  IsFiniteSet(S) /\ Cardinality(S) \in 0 .. 64
<1>1. IsFiniteSet(Subnets) /\ Cardinality(Subnets) = SUBNET_ADDRESS_MAX
  <2>1. 0 \in Int /\ SUBNET_ADDRESS_MAX - 1 \in Int /\ ~(0 > SUBNET_ADDRESS_MAX - 1)
        /\ (SUBNET_ADDRESS_MAX - 1) - 0 + 1 = SUBNET_ADDRESS_MAX
    BY SizeAssumption
  <2> QED
    BY <2>1, FS_Interval DEF Subnets
<1>2. IsFiniteSet(S) /\ Cardinality(S) <= SUBNET_ADDRESS_MAX
  BY <1>1, FS_Subset
<1>3. Cardinality(S) \in Nat
  BY <1>2, FS_CardinalityType
<1> QED
  BY <1>2, <1>3, SizeAssumption

\* router_init() counts the own subnet and one neighbour for each link.
LEMMA InitialCount ==
  Cardinality({s \in Subnets : InitialEntry(s).is_valid}) = ROUTER_LINK_COUNT + 1
<1> DEFINE N == {NEIGHBOUR_SUBNETS[l] : l \in Links}
<1>1. {s \in Subnets : InitialEntry(s).is_valid} = N \cup {MY_SUBNET}
  <2>1. ASSUME NEW s \in Subnets
        PROVE  InitialEntry(s).is_valid <=> s \in N \cup {MY_SUBNET}
    BY DEF InitialEntry, Route
  <2>2. N \cup {MY_SUBNET} \subseteq Subnets
    BY LinkAssumption, ConstantFacts
  <2> QED
    BY <2>1, <2>2
<1>2. IsFiniteSet(Links) /\ Cardinality(Links) = ROUTER_LINK_COUNT
  <2>1. 0 \in Int /\ ROUTER_LINK_COUNT - 1 \in Int /\ ~(0 > ROUTER_LINK_COUNT - 1)
        /\ (ROUTER_LINK_COUNT - 1) - 0 + 1 = ROUTER_LINK_COUNT
    BY SizeAssumption
  <2> QED
    BY <2>1, FS_Interval DEF Links
<1>3. NEIGHBOUR_SUBNETS \in Bijection(Links, N)
  <2>1. NEIGHBOUR_SUBNETS \in [Links -> N]
    BY LinkAssumption
  <2> QED
    BY <2>1, LinkAssumption DEF Bijection, Injection, Surjection, IsInjective
<1>4. IsFiniteSet(N) /\ Cardinality(N) = ROUTER_LINK_COUNT
  BY <1>2, <1>3, FS_Bijection DEF ExistsBijection
<1>5. MY_SUBNET \notin N
  BY LinkAssumption
<1> QED
  BY <1>1, <1>4, <1>5, FS_AddElement

\* The strengthened invariant of the counter.
CountsInv == StepsInv /\ CountInv

LEMMA InitCounts == Init => CountsInv
<1> SUFFICES ASSUME Init PROVE CountsInv
  OBVIOUS
<1>1. ValidSlots = {s \in Subnets : InitialEntry(s).is_valid}
  BY DEF Init, InitialTable, ValidSlots
<1> QED
  BY <1>1, InitSteps, InitialCount DEF Init, CountsInv, CountInv

\* The counter follows the valid flag, one store behind it.
LEMMA CountStep ==
  ASSUME CountsInv, [LockStepNext]_vars
  PROVE  CountInv'
<1>0. /\ LockInv /\ TypeOK /\ CountInv
      /\ \A u \in AllLinks : CallInv(u)
  BY DEF CountsInv, StepsInv, LockInv, IInv
<1>1. ValidSlots \in SUBSET Subnets
  BY DEF ValidSlots
<1>2. CASE UNCHANGED <<table, stack>>
  BY <1>0, <1>2 DEF table, stack, CountInv, ValidSlots, Entry
<1>3. ASSUME NEW t \in AllLinks, Work(t) \/ (AllIdle /\ Receive(t)),
             dv_entry_count' = dv_entry_count, ValidSlots' = ValidSlots,
             pc[t] # "valid", pc'[t] \notin {"bump", "valid"}
      PROVE  CountInv'
  <2>1. \A u \in AllLinks : u # t => pc[u] = "idle" /\ pc'[u] = "idle"
    BY <1>0, <1>3, Lone
  <2>2. dv_entry_count = Cardinality(ValidSlots)
    BY <1>0, <1>3, <2>1 DEF CountInv
  <2> QED
    BY <1>3, <2>1, <2>2 DEF CountInv
<1>4. ASSUME NEW t \in AllLinks, Work(t)
      PROVE  CountInv'
  <2>0. t \in Links /\ frame[t] \in Frame /\ pc[t] # "idle"
    BY <1>0, <1>4, WorkOnLink
  <2>1. \A u \in AllLinks : u # t => pc[u] = "idle" /\ pc'[u] = "idle" /\ frame'[u] = frame[u]
    BY <1>0, <1>4, Lone
  <2> DEFINE d == Entry(t).dest_subnet
  <2> USE DEF At, Goto
  <2>2. CASE CountEntry(t)
    <3>1. d \in Subnets /\ pc[t] = "count"
      BY <1>0, <2>2 DEF CountEntry, CallInv, Writing
    <3>2. dv_entry_count = Cardinality(ValidSlots)
      BY <1>0, <2>1, <3>1 DEF CountInv
    <3>3. dv' = dv /\ dv_entry_count' = dv_entry_count /\ ValidSlots' = ValidSlots
      BY <2>2 DEF CountEntry, table, ValidSlots
    <3>4. CASE dv[d].is_valid
      <4>1. ValidSlots \cup {d} = ValidSlots
        BY <3>1, <3>4 DEF ValidSlots
      <4>2. pc'[t] = "valid" /\ frame' = frame
        BY <1>0, <2>2, <3>4 DEF CountEntry, TypeOK
      <4> QED
        BY <2>1, <3>1, <3>2, <3>3, <4>1, <4>2 DEF CountInv, Entry
    <3>5. CASE ~dv[d].is_valid
      <4>1. d \notin ValidSlots
        BY <3>5 DEF ValidSlots
      <4>2. pc'[t] = "bump" /\ frame'[t].count = dv_entry_count /\ Entry(t)' = Entry(t)
        <5>1. /\ pc' = [pc EXCEPT ![t] = "bump"]
              /\ frame' = [frame EXCEPT ![t].count = dv_entry_count]
          BY <2>2, <3>5 DEF CountEntry
        <5>2. pc'[t] = "bump" /\ frame'[t] = [frame[t] EXCEPT !.count = dv_entry_count]
          BY <1>0, <5>1 DEF TypeOK
        <5>3. /\ frame'[t].count = dv_entry_count
              /\ frame'[t].cmd = frame[t].cmd /\ frame'[t].i = frame[t].i
          BY <2>0, <5>2 DEF Frame
        <5> QED
          BY <5>2, <5>3 DEF Entry
      <4> QED
        BY <2>1, <3>2, <3>3, <4>1, <4>2 DEF CountInv
    <3> QED
      BY <3>4, <3>5
  <2>3. CASE BumpCount(t)
    <3>1. d \in Subnets /\ pc[t] = "bump" /\ pc'[t] = "valid" /\ frame' = frame
      BY <1>0, <2>3 DEF BumpCount, CallInv, Writing, TypeOK
    <3>2. /\ d \notin ValidSlots /\ frame[t].count = dv_entry_count
          /\ dv_entry_count = Cardinality(ValidSlots)
      BY <1>0, <2>1, <3>1 DEF CountInv
    <3>3. IsFiniteSet(ValidSlots) /\ Cardinality(ValidSlots) \in 0 .. 64
      BY <1>1, SlotsFinite
    <3>4. Cardinality(ValidSlots \cup {d}) = Cardinality(ValidSlots) + 1
      BY <3>2, <3>3, FS_AddElement
    <3>5. (frame[t].count + 1) % 256 = Cardinality(ValidSlots) + 1
      BY <3>2, <3>3
    <3>6. ValidSlots' = ValidSlots /\ Entry(t)' = Entry(t)
      BY <2>3, <3>1 DEF BumpCount, ValidSlots, Entry
    <3>7. dv_entry_count' = Cardinality(ValidSlots \cup {d})
      BY <2>3, <3>4, <3>5 DEF BumpCount
    <3> QED
      BY <2>1, <3>1, <3>6, <3>7 DEF CountInv
  <2>4. CASE SetValid(t)
    <3>1. d \in Subnets /\ pc[t] = "valid" /\ pc'[t] = "cost"
      BY <1>0, <2>4 DEF SetValid, CallInv, Writing, TypeOK
    <3>2. dv_entry_count = Cardinality(ValidSlots \cup {d}) /\ dv_entry_count' = dv_entry_count
      BY <1>0, <2>4, <3>1 DEF CountInv, SetValid
    <3>3. \A s \in Subnets : dv'[s].is_valid <=> dv[s].is_valid \/ s = d
      <4> HIDE DEF d
      <4>1. dv' = [dv EXCEPT ![d].is_valid = TRUE] /\ dv \in [Subnets -> RouteEntry]
        BY <1>0, <2>4 DEF SetValid, d, TypeOK
      <4>2. ASSUME NEW s \in Subnets, s # d PROVE dv'[s] = dv[s]
        BY <4>1, <4>2
      <4>3. dv'[d] = [dv[d] EXCEPT !.is_valid = TRUE] /\ dv[d] \in RouteEntry
        BY <3>1, <4>1
      <4>4. dv'[d].is_valid
        BY <4>3 DEF RouteEntry
      <4> QED
        BY <4>2, <4>4, Zenon
    <3>4. ValidSlots' = ValidSlots \cup {d}
      BY <3>1, <3>3 DEF ValidSlots
    <3> QED
      BY <2>1, <3>1, <3>2, <3>4 DEF CountInv
  <2>5. CASE SetCost(t) \/ SetHop(t)
    <3>1. d \in Subnets /\ pc[t] \in {"cost", "hop"} /\ pc'[t] \in {"hop", "compare"}
      BY <1>0, <2>5 DEF SetCost, SetHop, CallInv, Writing, TypeOK
    <3>2. ASSUME NEW s \in Subnets PROVE dv'[s].is_valid = dv[s].is_valid
      <4>1. dv \in [Subnets -> RouteEntry]
        BY <1>0 DEF TypeOK
      <4>2. CASE s # d
        BY <2>5, <4>1, <4>2 DEF SetCost, SetHop
      <4>3. \/ dv'[d] = [dv[d] EXCEPT !.cost = Offer(t)]
            \/ dv'[d] = [dv[d] EXCEPT !.next_hop_link = t]
        BY <2>5, <3>1, <4>1 DEF SetCost, SetHop
      <4>4. dv[d] \in RouteEntry
        BY <3>1, <4>1
      <4>5. dv'[d].is_valid = dv[d].is_valid
        <5> DEFINE e == dv[d]
                   f == dv'[d]
        <5>1. e \in RouteEntry
              /\ (f = [e EXCEPT !.cost = Offer(t)] \/ f = [e EXCEPT !.next_hop_link = t])
          BY <4>3, <4>4
        <5> HIDE DEF e, f
        <5> QED
          BY <5>1 DEF RouteEntry, e, f
      <4> QED
        BY <4>2, <4>5
    <3>3. ValidSlots' = ValidSlots /\ dv_entry_count' = dv_entry_count
      BY <2>5, <3>2 DEF ValidSlots, SetCost, SetHop
    <3> QED
      BY <1>3, <1>4, <3>1, <3>3
  <2>6. ASSUME UNCHANGED <<dv, dv_entry_count>>, pc[t] # "valid", pc'[t] \notin {"bump", "valid"}
        PROVE  CountInv'
    <3>1. ValidSlots' = ValidSlots
      BY <2>6 DEF ValidSlots
    <3> QED
      BY <1>3, <1>4, <2>6, <3>1
  <2>7. CASE DropOutdated(t) \/ PassTimestamp(t) \/ StoreTimestamp(t) \/ CompareEntry(t)
    BY <1>0, <2>6, <2>7
       DEF DropOutdated, PassTimestamp, StoreTimestamp, CompareEntry, Return, TypeOK, table
  <2>8. CASE EndUpdate(t) \/ ScanEntry(t)
    BY <1>0, <2>6, <2>8 DEF EndUpdate, ScanEntry, Return, TypeOK, table
  <2>9. CASE SendTable(t) \/ SendBroken(t)
    BY <1>0, <2>6, <2>9 DEF SendTable, SendBroken, NextLink, Return, TypeOK, table, stack
  <2> QED
    BY <1>4, <2>2, <2>3, <2>4, <2>5, <2>7, <2>8, <2>9 DEF Work
<1>5. ASSUME NEW t \in AllLinks, AllIdle /\ Receive(t)
      PROVE  CountInv'
  <2>1. CASE UNCHANGED stack
    BY <1>0, <1>2, <1>5, <2>1, ReceiveEffect
  <2>2. CASE pc[t] = "idle" /\ pc'[t] = "check"
    BY <1>0, <1>3, <1>5, <2>2, ReceiveEffect DEF table, ValidSlots
  <2> QED
    BY <1>0, <1>5, <2>1, <2>2, ReceiveEffect
<1>6. ASSUME NEW t \in AllLinks, Fail(t)
      PROVE  CountInv'
  BY <1>2, <1>6, FailEffect
<1>7. CASE UNCHANGED vars
  BY <1>2, <1>7 DEF vars
<1> QED
  BY <1>4, <1>5, <1>6, <1>7 DEF LockStepNext

\* The driver's count of entries is the number of valid slots: a new route
\* is counted once, a better one not again, and the byte never wraps.
THEOREM CountIsRight == LockStepSpec => []CountMatches
<1>1. CountsInv /\ [LockStepNext]_vars => CountsInv'
  BY StepsStep, CountStep DEF CountsInv
<1>2. CountsInv => CountMatches
  BY DEF CountsInv, CountInv, CountMatches, AllIdle, ValidSlots
<1> QED
  BY <1>1, <1>2, InitCounts, PTL DEF LockStepSpec

-----------------------------------------------------------------------------
(* The loop over the entries of a command. *)

\* The offers of the entries from the i-th on.
LEMMA OffersFrom ==
  ASSUME NEW e \in Seq(CommandEntry), NEW i \in Nat, i >= 1, NEW t \in Links
  PROVE  Offers(SubSeq(e, i, Len(e)), t) =
           {<<e[k].dest_subnet, NewCost(e[k].cost, t)>> : k \in i .. Len(e)}
<1> DEFINE r == SubSeq(e, i, Len(e))
<1>1. \A k \in i .. Len(e) : (k - i + 1) \in DOMAIN r /\ r[k - i + 1] = e[k]
  OBVIOUS
<1>2. \A j \in DOMAIN r : (j + i - 1) \in i .. Len(e) /\ r[j] = e[j + i - 1]
  OBVIOUS
<1> HIDE DEF r
<1>3. ASSUME NEW o \in Offers(r, t)
      PROVE  o \in {<<e[k].dest_subnet, NewCost(e[k].cost, t)>> : k \in i .. Len(e)}
  <2>1. PICK j \in DOMAIN r : o = <<r[j].dest_subnet, NewCost(r[j].cost, t)>>
    BY <1>3 DEF Offers
  <2> QED
    BY <1>2, <2>1
<1>4. ASSUME NEW k \in i .. Len(e)
      PROVE  <<e[k].dest_subnet, NewCost(e[k].cost, t)>> \in Offers(r, t)
  BY <1>1 DEF Offers
<1> QED
  BY <1>3, <1>4 DEF r

\* One entry less, no entry left, every entry.
LEMMA OffersStep ==
  ASSUME NEW e \in Seq(CommandEntry), NEW i \in Nat, i >= 1, NEW t \in Links
  PROVE  /\ i <= Len(e) =>
              Offers(SubSeq(e, i, Len(e)), t) =
                Offers(SubSeq(e, i + 1, Len(e)), t)
                  \cup {<<e[i].dest_subnet, NewCost(e[i].cost, t)>>}
         /\ i > Len(e) => Offers(SubSeq(e, i, Len(e)), t) = {}
         /\ Offers(SubSeq(e, 1, Len(e)), t) = Offers(e, t)
<1> DEFINE O(k) == <<e[k].dest_subnet, NewCost(e[k].cost, t)>>
<1>1. Len(e) \in Nat
  OBVIOUS
<1>2. Offers(SubSeq(e, i, Len(e)), t) = {O(k) : k \in i .. Len(e)}
  BY OffersFrom
<1>3. Offers(SubSeq(e, i + 1, Len(e)), t) = {O(k) : k \in i + 1 .. Len(e)}
  BY OffersFrom
<1>4. Offers(SubSeq(e, 1, Len(e)), t) = {O(k) : k \in 1 .. Len(e)}
  BY OffersFrom
<1>5. Offers(e, t) = {O(k) : k \in 1 .. Len(e)}
  BY DEF Offers
<1> HIDE DEF O
<1>6. ASSUME i <= Len(e)
      PROVE  {O(k) : k \in i .. Len(e)} = {O(k) : k \in i + 1 .. Len(e)} \cup {O(i)}
  <2>1. i .. Len(e) = (i + 1 .. Len(e)) \cup {i}
    BY <1>1, <1>6
  <2> QED
    BY <2>1
<1>7. ASSUME i > Len(e)
      PROVE  {O(k) : k \in i .. Len(e)} = {}
  BY <1>1, <1>7
<1> QED
  BY <1>2, <1>3, <1>4, <1>5, <1>6, <1>7 DEF O

\* Which calls are updating, when only t may be in one.
LEMMA UpdatingIs ==
  ASSUME NEW t \in Links
  PROVE  /\ (\A u \in AllLinks : u # t => pc[u] = "idle") =>
              Updating = IF pc[t] \in Writing \cup {"compare"} THEN {t} ELSE {}
         /\ (\A u \in AllLinks : u # t => pc'[u] = "idle") =>
              Updating' = IF pc'[t] \in Writing \cup {"compare"} THEN {t} ELSE {}
BY ConstantFacts DEF Updating, Writing

\* The stores of dv_set_entry(), and those that are left to it.
Store(t) == CountEntry(t) \/ BumpCount(t) \/ SetValid(t) \/ SetCost(t) \/ SetHop(t)

\* A store under way changes neither the table it is making nor what is left
\* to do; after the last one that table is there.
LEMMA StoreEffect ==
  ASSUME StepsInv, NEW t \in AllLinks, Store(t)
  PROVE  /\ t \in Links
         /\ pc[t] \in Writing /\ pc'[t] \in Writing \cup {"compare"}
         /\ pc'[t] = "compare" => frame'[t].changed
         /\ StoreDone(t)' = StoreDone(t) /\ Rest(t)' = Rest(t)
         /\ frame'[t].cmd = frame[t].cmd
         /\ UNCHANGED <<last_timestamp, offered, view, up>>
<1>0. /\ LockInv /\ TypeOK /\ CallInv(t) /\ StoreInv(t)
      /\ dv \in [Subnets -> RouteEntry] /\ pc \in [AllLinks -> Locations]
      /\ frame \in [AllLinks -> Frame]
  BY DEF StepsInv, LockInv, IInv, TypeOK
<1>1. t \in Links /\ frame[t] \in Frame /\ pc[t] # "idle"
  BY <1>0, WorkOnLink DEF Store, Work
<1> DEFINE d == Entry(t).dest_subnet
           c == Offer(t)
<1>2. pc[t] \in Writing /\ d \in Subnets /\ StoreDone(t) = [dv EXCEPT ![d] = Route(c, t)]
  BY <1>0 DEF CallInv, Store, CountEntry, BumpCount, SetValid, SetCost, SetHop,
              At, Writing, StoreDone
<1>3. UNCHANGED <<last_timestamp, offered, view, up>>
  BY DEF Store, CountEntry, BumpCount, SetValid, SetCost, SetHop, table, net
<1>4. CASE CountEntry(t) \/ BumpCount(t)
  <2>1. pc'[t] \in {"bump", "valid"} /\ dv' = dv
    BY <1>0, <1>4 DEF CountEntry, BumpCount, Goto, table
  <2>2. frame'[t].cmd = frame[t].cmd /\ frame'[t].i = frame[t].i
    BY <1>0, <1>1, <1>4 DEF CountEntry, BumpCount, Frame
  <2>3. Entry(t)' = Entry(t) /\ Offer(t)' = Offer(t)
    BY <2>2 DEF Entry, Offer
  <2>4. Rest(t)' = Rest(t)
    BY <1>2, <2>1, <2>2 DEF Rest, Writing
  <2>5. StoreDone(t)' = StoreDone(t)
    BY <1>2, <2>1, <2>3 DEF StoreDone
  <2> QED
    BY <1>1, <1>2, <1>3, <2>1, <2>2, <2>4, <2>5 DEF Writing
<1>5. CASE SetValid(t) \/ SetCost(t)
  <2>1. pc'[t] \in {"cost", "hop"} /\ frame' = frame
    BY <1>0, <1>5 DEF SetValid, SetCost, Goto
  <2>2. Rest(t)' = Rest(t) /\ Entry(t)' = Entry(t) /\ Offer(t)' = Offer(t)
    BY <1>2, <2>1 DEF Rest, Writing, Entry, Offer
  <2>3. dv' = [dv EXCEPT ![d] = dv'[d]]
    <3>1. \/ dv' = [dv EXCEPT ![d].is_valid = TRUE]
          \/ dv' = [dv EXCEPT ![d].cost = c]
      BY <1>5 DEF SetValid, SetCost
    <3> HIDE DEF c, d
    <3>2. DOMAIN dv' = Subnets /\ dv' \in [Subnets -> {dv'[s] : s \in Subnets}]
      BY <1>0, <3>1
    <3>3. ASSUME NEW s \in Subnets, s # d PROVE dv'[s] = dv[s]
      BY <1>0, <1>2, <3>1, <3>3
    <3> QED
      BY <1>0, <1>2, <3>2, <3>3
  <2>4. [dv' EXCEPT ![d] = Route(c, t)] = [dv EXCEPT ![d] = Route(c, t)]
    <3>1. \A r, q : [[dv EXCEPT ![d] = r] EXCEPT ![d] = q] = [dv EXCEPT ![d] = q]
      <4> HIDE DEF c, d
      <4> QED
        BY <1>0, <1>2
    <3> HIDE DEF c, d
    <3> QED
      BY <2>3, <3>1
  <2>5. StoreDone(t)' = StoreDone(t)
    BY <1>2, <2>1, <2>2, <2>4 DEF StoreDone
  <2> QED
    BY <1>1, <1>2, <1>3, <2>1, <2>2, <2>5 DEF Writing
<1>6. CASE SetHop(t)
  <2>1. /\ pc'[t] = "compare" /\ pc[t] = "hop"
        /\ dv' = [dv EXCEPT ![d].next_hop_link = t]
        /\ frame'[t].changed /\ frame'[t].i = frame[t].i + 1 /\ frame'[t].cmd = frame[t].cmd
    BY <1>0, <1>1, <1>6 DEF SetHop, Goto, At, Frame
  <2>2. Rest(t)' = Rest(t)
    BY <2>1 DEF Rest
  <2>3. dv' = [dv EXCEPT ![d] = Route(c, t)]
    <3>1. dv[d].is_valid /\ dv[d].cost = c /\ dv[d] \in RouteEntry
      BY <1>0, <1>2, <2>1 DEF StoreInv
    <3> HIDE DEF c, d
    <3>2. /\ dv' \in [Subnets -> {dv'[s] : s \in Subnets}]
          /\ dv'[d] = [dv[d] EXCEPT !.next_hop_link = t]
      BY <1>0, <1>2, <2>1
    <3>3. dv'[d] = Route(c, t)
      BY <3>1, <3>2 DEF RouteEntry, Route
    <3>4. ASSUME NEW s \in Subnets, s # d PROVE dv'[s] = dv[s]
      BY <1>0, <1>2, <2>1, <3>4
    <3> QED
      BY <1>0, <1>2, <3>2, <3>3, <3>4
  <2>4. StoreDone(t)' = StoreDone(t)
    BY <1>2, <2>1, <2>3 DEF StoreDone
  <2> QED
    BY <1>1, <1>2, <1>3, <2>1, <2>2, <2>4 DEF Writing
<1> QED
  BY <1>4, <1>5, <1>6 DEF Store

\* Comparing an entry takes it from what is left to do, and puts it in the
\* table being made if it is better.
LEMMA CompareEffect ==
  ASSUME StepsInv, NEW t \in AllLinks, CompareEntry(t)
  PROVE  LET d == Entry(t).dest_subnet
             c == Offer(t)
         IN  /\ t \in Links /\ pc[t] = "compare" /\ StoreDone(t) = dv
             /\ d \in Byte /\ c \in Byte /\ <<d, c>> \in offered[t]
             /\ Offers(Rest(t), t) = Offers(Rest(t), t)' \cup {<<d, c>>}
             /\ frame'[t].cmd = frame[t].cmd
             /\ UNCHANGED <<last_timestamp, dv, offered, view, up>>
             /\ \/ /\ d \in Subnets /\ Improves(t) /\ pc'[t] = "count"
                   /\ frame'[t].changed = frame[t].changed
                   /\ StoreDone(t)' = [dv EXCEPT ![d] = Route(c, t)]
                \/ /\ d \in Subnets /\ ~Improves(t) /\ pc'[t] = "compare"
                   /\ frame'[t].changed = frame[t].changed
                   /\ StoreDone(t)' = dv
                \/ /\ d \notin Subnets /\ pc'[t] = "compare"
                   /\ frame'[t].changed
                   /\ StoreDone(t)' = dv
<1> DEFINE d == Entry(t).dest_subnet
           c == Offer(t)
           e == frame[t].cmd.entries
           i == frame[t].i
<1>0. /\ LockInv /\ TypeOK /\ CallInv(t)
      /\ pc \in [AllLinks -> Locations] /\ frame \in [AllLinks -> Frame]
  BY DEF StepsInv, LockInv, IInv, TypeOK
<1>1. t \in Links /\ frame[t] \in Frame /\ pc[t] = "compare" /\ StoreDone(t) = dv
  BY <1>0, WorkOnLink DEF CompareEntry, At, Work, StoreDone
<1>2. e \in Seq(CommandEntry) /\ i \in Nat /\ i >= 1 /\ i <= Len(e)
  BY <1>0, <1>1 DEF CallInv, CompareEntry, AtEnd, Frame, Command
<1>3. d \in Byte /\ c \in Byte /\ <<d, c>> \in offered[t]
  BY <1>0, <1>1, <1>2, EntryType DEF CallInv
<1>4. UNCHANGED <<last_timestamp, dv, offered, view, up>>
  BY DEF CompareEntry, table, net
<1>5. Offers(SubSeq(e, i, Len(e)), t) = Offers(SubSeq(e, i + 1, Len(e)), t) \cup {<<d, c>>}
  BY <1>1, <1>2, OffersStep DEF Entry, Offer
<1>6. Rest(t) = SubSeq(e, i, Len(e))
  BY <1>1 DEF Rest
<1>7. CASE d \in Subnets /\ Improves(t) /\ Goto(t, "count") /\ UNCHANGED frame
  <2>1. pc'[t] = "count" /\ frame' = frame
    BY <1>0, <1>7 DEF Goto
  <2>2. Rest(t)' = SubSeq(e, i + 1, Len(e))
    BY <2>1 DEF Rest
  <2>3. StoreDone(t)' = [dv EXCEPT ![d] = Route(c, t)]
    BY <1>4, <2>1 DEF StoreDone, Entry, Offer
  <2> QED
    BY <1>1, <1>3, <1>4, <1>5, <1>6, <1>7, <2>1, <2>2, <2>3
<1>8. ASSUME pc' = pc, frame'[t].i = i + 1, frame'[t].cmd = frame[t].cmd
      PROVE  /\ pc'[t] = "compare" /\ StoreDone(t)' = dv
             /\ Rest(t)' = SubSeq(e, i + 1, Len(e))
  BY <1>1, <1>4, <1>8 DEF Rest, StoreDone
<1>9. CASE d \in Subnets /\ ~Improves(t) /\ frame' = [frame EXCEPT ![t].i = @ + 1] /\ UNCHANGED pc
  <2>1. frame'[t].i = i + 1 /\ frame'[t].cmd = frame[t].cmd /\ frame'[t].changed = frame[t].changed
    BY <1>0, <1>1, <1>9 DEF Frame
  <2> QED
    BY <1>1, <1>3, <1>4, <1>5, <1>6, <1>8, <1>9, <2>1
<1>10. CASE d \notin Subnets /\ frame' = [frame EXCEPT ![t].i = @ + 1, ![t].changed = TRUE] /\ UNCHANGED pc
  <2>1. frame'[t].i = i + 1 /\ frame'[t].cmd = frame[t].cmd /\ frame'[t].changed
    BY <1>0, <1>1, <1>10 DEF Frame
  <2> QED
    BY <1>1, <1>3, <1>4, <1>5, <1>6, <1>8, <1>10, <2>1
<1> QED
  BY <1>7, <1>9, <1>10 DEF CompareEntry

\* A command that is accepted stands at its first entry: all of it is left
\* to do, and offered.
LEMMA StampEffect ==
  ASSUME StepsInv, NEW t \in AllLinks, StoreTimestamp(t)
  PROVE  /\ t \in Links /\ pc[t] = "stamp" /\ pc'[t] = "compare"
         /\ frame' = frame /\ frame[t].cmd \in Commands /\ ~frame[t].changed
         /\ frame[t].cmd.timestamp > last_timestamp
         /\ last_timestamp' = frame[t].cmd.timestamp
         /\ Offers(frame[t].cmd.entries, t) \subseteq Byte \X Byte
         /\ offered' = [offered EXCEPT ![t] = @ \cup Offers(frame[t].cmd.entries, t)]
         /\ StoreDone(t)' = dv
         /\ Offers(Rest(t), t)' = Offers(frame[t].cmd.entries, t)
         /\ UNCHANGED <<dv, view, up>>
<1>0. /\ LockInv /\ TypeOK /\ CallInv(t) /\ StartInv(t)
      /\ pc \in [AllLinks -> Locations] /\ frame \in [AllLinks -> Frame]
  BY DEF StepsInv, LockInv, IInv, TypeOK
<1>1. /\ t \in Links /\ pc[t] = "stamp" /\ pc'[t] = "compare" /\ frame' = frame
      /\ frame[t].i = 1 /\ ~frame[t].changed /\ frame[t].cmd \in Commands
      /\ frame[t].cmd.timestamp > last_timestamp /\ frame[t] \in Frame
  BY <1>0 DEF StoreTimestamp, At, Goto, CallInv, StartInv, LockInv
<1>2. frame[t].cmd \in Command /\ frame[t].cmd.entries \in Seq(CommandEntry)
  BY <1>1 DEF Frame, Command
<1>3. Offers(frame[t].cmd.entries, t) \subseteq Byte \X Byte
  BY <1>1, <1>2, OffersType
<1>4. dv' = dv /\ StoreDone(t)' = dv
  BY <1>1 DEF StoreTimestamp, StoreDone
<1>5. Rest(t)' = SubSeq(frame[t].cmd.entries, 1, Len(frame[t].cmd.entries))
  BY <1>1 DEF Rest
<1>6. Offers(Rest(t), t)' = Offers(frame[t].cmd.entries, t)
  BY <1>1, <1>2, <1>5, OffersStep
<1> QED
  BY <1>1, <1>3, <1>4, <1>6 DEF StoreTimestamp, net

\* When the loop ends nothing is left to do.
LEMMA EndEffect ==
  ASSUME StepsInv, NEW t \in AllLinks, EndUpdate(t)
  PROVE  /\ t \in Links /\ pc[t] = "compare" /\ StoreDone(t) = dv
         /\ Offers(Rest(t), t) = {}
         /\ IF frame[t].changed
              THEN pc'[t] = "scan" /\ frame'[t].i = 0 /\ frame'[t].out = <<>>
              ELSE pc'[t] = "idle"
         /\ UNCHANGED <<last_timestamp, dv, offered, view, up>>
<1>0. /\ LockInv /\ TypeOK /\ CallInv(t)
      /\ pc \in [AllLinks -> Locations] /\ frame \in [AllLinks -> Frame]
  BY DEF StepsInv, LockInv, IInv, TypeOK
<1>1. t \in Links /\ frame[t] \in Frame /\ pc[t] = "compare" /\ StoreDone(t) = dv
  BY <1>0, WorkOnLink DEF EndUpdate, At, Work, StoreDone
<1>2. /\ frame[t].cmd.entries \in Seq(CommandEntry)
      /\ frame[t].i \in Nat /\ frame[t].i >= 1 /\ frame[t].i > Len(frame[t].cmd.entries)
      /\ frame[t].out = <<>>
  BY <1>0, <1>1 DEF CallInv, EndUpdate, AtEnd, Frame, Command
<1>3. Offers(Rest(t), t) = {}
  BY <1>1, <1>2, OffersStep DEF Rest
<1>4. IF frame[t].changed
        THEN pc'[t] = "scan" /\ frame'[t].i = 0 /\ frame'[t].out = <<>>
        ELSE pc'[t] = "idle"
  <2>1. CASE frame[t].changed
    <3>1. pc' = [pc EXCEPT ![t] = "scan"] /\ frame' = [frame EXCEPT ![t].i = 0]
      BY <2>1 DEF EndUpdate, Goto
    <3>2. pc'[t] = "scan" /\ frame'[t] = [frame[t] EXCEPT !.i = 0]
      BY <1>0, <3>1
    <3> QED
      BY <1>1, <1>2, <2>1, <3>2 DEF Frame
  <2>2. CASE ~frame[t].changed
    BY <1>0, <2>2 DEF EndUpdate, Return, Goto
  <2> QED
    BY <2>1, <2>2
<1> QED
  BY <1>1, <1>3, <1>4 DEF EndUpdate, table, net

\* The other steps are not in the loop, and leave the table alone.
LEMMA OtherEffect ==
  ASSUME StepsInv, NEW t \in AllLinks,
         DropOutdated(t) \/ PassTimestamp(t) \/ ScanEntry(t) \/ SendTable(t) \/ SendBroken(t)
  PROVE  /\ t \in Links
         /\ pc[t] \in {"check", "scan", "send"} /\ pc'[t] \in {"idle", "stamp", "scan", "send"}
         /\ UNCHANGED <<last_timestamp, dv, offered, up>>
<1>0. LockInv /\ pc \in [AllLinks -> Locations]
  BY DEF StepsInv, LockInv, IInv, TypeOK
<1>1. t \in Links
  BY <1>0, WorkOnLink DEF Work
<1> QED
  BY <1>0, <1>1
     DEF DropOutdated, PassTimestamp, ScanEntry, SendTable, SendBroken, NextLink,
         Return, Goto, At, table, net, stack

-----------------------------------------------------------------------------
(* The best offer. *)

\* Storing a better offer, passing over one that is not better, and
\* accepting new offers keep a slot best.
LEMMA SlotStored ==
  ASSUME NEW tbl \in [Subnets -> RouteEntry], NEW off \in [Links -> SUBSET (Byte \X Byte)],
         NEW todo, NEW t \in Links, NEW d \in Subnets, NEW c \in Byte, NEW s \in Subnets,
         <<d, c>> \in off[t], ~tbl[d].is_valid \/ tbl[d].cost > c,
         SlotInv(tbl, todo \cup {<<d, c>>}, off, s)
  PROVE  SlotInv([tbl EXCEPT ![d] = Route(c, t)], todo, off, s)
<1> DEFINE new == [tbl EXCEPT ![d] = Route(c, t)]
<1>1. CASE s # d
  BY <1>1 DEF SlotInv
<1>2. CASE s = d
  <2>1. new[s].is_valid /\ new[s].cost = c /\ new[s].next_hop_link = t
    BY <1>2 DEF Route
  <2>2. tbl[s].cost \in Nat /\ InitialEntry(s).cost \in Nat /\ c \in Nat
    <3>1. tbl[s] \in RouteEntry /\ InitialEntry(s) \in RouteEntry
      BY InitialEntryType
    <3>2. \A e \in RouteEntry : e.cost \in Byte
      BY DEF RouteEntry
    <3>3. Byte \subseteq Nat
      BY DEF Byte
    <3> QED
      BY <3>1, <3>2, <3>3
  <2> DEFINE old  == tbl[s]
             init == InitialEntry(s)
  <2>3. init.is_valid => c <= init.cost
    <3>1. init.is_valid => old.is_valid /\ old.cost <= init.cost
      BY DEF SlotInv
    <3>2. ~old.is_valid \/ old.cost > c
      BY <1>2
    <3> HIDE DEF old, init
    <3>3. \A x, y, z \in Nat : x <= y /\ x > z => z <= y
      OBVIOUS
    <3>4. old.cost \in Nat /\ init.cost \in Nat
      BY <2>2 DEF old, init
    <3> QED
      BY <2>2, <3>1, <3>2, <3>3, <3>4, Zenon
  <2>4. ASSUME NEW l \in Links, NEW b \in Byte, <<s, b>> \in off[l]
        PROVE  c <= b \/ <<s, b>> \in todo
    <3>1. (old.is_valid /\ old.cost <= b) \/ <<s, b>> \in todo \/ <<s, b>> = <<d, c>>
      BY <2>4 DEF SlotInv
    <3>2. ~old.is_valid \/ old.cost > c
      BY <1>2
    <3>3. \A x, y, z \in Nat : x <= y /\ x > z => z <= y
      OBVIOUS
    <3>4. b \in Nat /\ c <= c
      BY <2>2 DEF Byte
    <3>5. <<s, b>> = <<d, c>> => b = c
      OBVIOUS
    <3> QED
      BY <2>2, <3>1, <3>2, <3>3, <3>4, <3>5, Zenon
  <2> HIDE DEF new
  <2>5. SlotInv(new, todo, off, s)
    BY <1>2, <2>1, <2>3, <2>4 DEF SlotInv
  <2> QED
    BY <2>5 DEF new
<1> QED
  BY <1>1, <1>2

LEMMA SlotPassed ==
  ASSUME NEW tbl, NEW off, NEW todo, NEW d, NEW c, NEW s \in Subnets,
         d \in Subnets => tbl[d].is_valid /\ tbl[d].cost <= c,
         SlotInv(tbl, todo \cup {<<d, c>>}, off, s)
  PROVE  SlotInv(tbl, todo, off, s)
BY DEF SlotInv

LEMMA SlotOffered ==
  ASSUME NEW tbl, NEW off \in [Links -> SUBSET (Byte \X Byte)], NEW t \in Links,
         NEW O, NEW s \in Subnets, SlotInv(tbl, {}, off, s)
  PROVE  SlotInv(tbl, O, [off EXCEPT ![t] = @ \cup O], s)
BY DEF SlotInv

\* The table of router_init() is the best of no offer.
LEMMA InitBest == Init => BestInv
<1> SUFFICES ASSUME Init, NEW s \in Subnets PROVE SlotInv(dv, {}, offered, s)
  <2>1. Init => Updating = {}
    BY ConstantFacts DEF Init, Updating
  <2> QED
    BY <2>1 DEF BestInv
<1>1. dv[s] = InitialEntry(s)
  BY DEF Init, InitialTable
<1>2. dv[s].cost <= InitialEntry(s).cost
  <2>1. InitialEntry(s) \in RouteEntry
    BY InitialEntryType
  <2>2. InitialEntry(s).cost \in Byte
    BY <2>1 DEF RouteEntry
  <2> QED
    BY <1>1, <2>2 DEF Byte
<1>3. \A l \in Links : offered[l] = {}
  BY DEF Init
<1> QED
  BY <1>1, <1>2, <1>3 DEF SlotInv

\* The strengthened invariant of the table.
TableInv == StepsInv /\ BestInv

\* No step makes the table, or the one it is making, less than the best.
LEMMA BestStep ==
  ASSUME TableInv, [LockStepNext]_vars
  PROVE  BestInv'
<1>0. /\ StepsInv /\ LockInv /\ BestInv /\ dv \in [Subnets -> RouteEntry]
      /\ offered \in [Links -> SUBSET (Byte \X Byte)]
  BY DEF TableInv, StepsInv, LockInv, IInv, TypeOK
<1>1. CASE UNCHANGED <<table, stack, offered>>
  <2>1. Updating' = Updating /\ dv' = dv /\ offered' = offered
    BY <1>1 DEF table, stack, Updating
  <2>2. \A t \in Links : StoreDone(t)' = StoreDone(t) /\ Rest(t)' = Rest(t)
    BY <1>1 DEF table, stack, StoreDone, Rest, Entry, Offer
  <2>3. \A t \in Updating : t \in Links
    BY DEF Updating
  <2> QED
    BY <1>0, <2>1, <2>2, <2>3 DEF BestInv, SlotInv
<1>2. ASSUME NEW t \in Links, Updating = {}, Updating' = {}, dv' = dv, offered' = offered
      PROVE  BestInv'
  BY <1>0, <1>2 DEF BestInv, SlotInv
<1>3. ASSUME NEW t \in AllLinks, Work(t)
      PROVE  BestInv'
  <2> DEFINE U == Writing \cup {"compare"}
  <2>1. /\ t \in Links
        /\ Updating = IF pc[t] \in U THEN {t} ELSE {}
        /\ Updating' = IF pc'[t] \in U THEN {t} ELSE {}
    BY <1>0, <1>3, WorkOnLink, Lone, UpdatingIs
  <2>2. CASE Store(t)
    <3>1. /\ Updating = {t} /\ Updating' = {t}
          /\ StoreDone(t)' = StoreDone(t) /\ Rest(t)' = Rest(t) /\ offered' = offered
      BY <1>0, <2>1, <2>2, StoreEffect
    <3> QED
      BY <1>0, <3>1 DEF BestInv, SlotInv
  <2>3. CASE CompareEntry(t)
    <3> DEFINE d == Entry(t).dest_subnet
               c == Offer(t)
               todo == Offers(Rest(t)', t)
    <3>1. /\ pc[t] = "compare" /\ StoreDone(t) = dv
          /\ d \in Byte /\ c \in Byte /\ <<d, c>> \in offered[t]
          /\ Offers(Rest(t), t) = todo \cup {<<d, c>>}
          /\ dv' = dv /\ offered' = offered
      BY <1>0, <2>3, CompareEffect
    <3>2. Updating = {t} /\ Updating' = {t}
      BY <1>0, <2>1, <2>3, <3>1, CompareEffect DEF Writing
    <3>3. \A s \in Subnets : SlotInv(dv, todo \cup {<<d, c>>}, offered, s)
      BY <1>0, <3>1, <3>2 DEF BestInv
    <3>4. (d \in Subnets /\ Improves(t) /\ StoreDone(t)' = [dv EXCEPT ![d] = Route(c, t)])
            \/ (d \in Subnets /\ ~Improves(t) /\ StoreDone(t)' = dv)
            \/ (d \notin Subnets /\ StoreDone(t)' = dv)
      BY <1>0, <2>3, CompareEffect
    <3>5. Improves(t) <=> ~dv[d].is_valid \/ dv[d].cost > c
      BY DEF Improves
    <3> HIDE DEF d, c, todo
    <3>6. ASSUME NEW s \in Subnets PROVE SlotInv(StoreDone(t)', todo, offered, s)
      <4>1. CASE d \in Subnets /\ Improves(t) /\ StoreDone(t)' = [dv EXCEPT ![d] = Route(c, t)]
        <5>1. ~dv[d].is_valid \/ dv[d].cost > c
          BY <3>5, <4>1
        <5>2. SlotInv(dv, todo \cup {<<d, c>>}, offered, s)
          BY <3>3
        <5>3. SlotInv([dv EXCEPT ![d] = Route(c, t)], todo, offered, s)
          BY <1>0, <2>1, <3>1, <4>1, <5>1, <5>2, SlotStored
        <5> QED
          BY <4>1, <5>3
      <4>2. CASE d \in Subnets /\ ~Improves(t) /\ StoreDone(t)' = dv
        <5>1. dv[d].is_valid /\ dv[d].cost <= c
          BY <1>0, <3>1, <3>5, <4>2 DEF RouteEntry, Byte
        <5> QED
          BY <3>3, <4>2, <5>1, SlotPassed
      <4>3. CASE d \notin Subnets /\ StoreDone(t)' = dv
        BY <3>3, <4>3, SlotPassed
      <4> QED
        BY <3>4, <4>1, <4>2, <4>3
    <3>7. todo = Offers(Rest(t), t)'
      BY DEF todo
    <3> QED
      BY <3>1, <3>2, <3>6, <3>7 DEF BestInv, SlotInv
  <2>4. CASE StoreTimestamp(t)
    <3> DEFINE O == Offers(frame[t].cmd.entries, t)
    <3>1. /\ Updating = {} /\ Updating' = {t} /\ StoreDone(t)' = dv
          /\ Offers(Rest(t), t)' = O /\ offered' = [offered EXCEPT ![t] = @ \cup O]
      BY <1>0, <2>1, <2>4, StampEffect DEF Writing
    <3>2. \A s \in Subnets : SlotInv(dv, {}, offered, s)
      BY <1>0, <3>1 DEF BestInv
    <3> HIDE DEF O
    <3>3. \A s \in Subnets : SlotInv(dv, O, offered', s)
      BY <1>0, <2>1, <3>1, <3>2, SlotOffered
    <3> QED
      BY <3>1, <3>3 DEF BestInv, SlotInv
  <2>5. CASE EndUpdate(t)
    <3>1. /\ Updating = {t} /\ StoreDone(t) = dv /\ Offers(Rest(t), t) = {}
          /\ dv' = dv /\ offered' = offered /\ pc'[t] \notin U
      BY <1>0, <2>1, <2>5, EndEffect DEF Writing
    <3>2. \A s \in Subnets : SlotInv(dv, {}, offered, s)
      BY <1>0, <3>1 DEF BestInv
    <3> QED
      BY <2>1, <3>1, <3>2 DEF BestInv, SlotInv
  <2>6. CASE DropOutdated(t) \/ PassTimestamp(t) \/ ScanEntry(t) \/ SendTable(t) \/ SendBroken(t)
    <3>1. Updating = {} /\ Updating' = {} /\ dv' = dv /\ offered' = offered
      BY <1>0, <2>1, <2>6, OtherEffect DEF Writing
    <3> QED
      BY <1>2, <2>1, <3>1
  <2> QED
    BY <1>3, <2>2, <2>3, <2>4, <2>5, <2>6 DEF Work, Store
<1>4. ASSUME NEW t \in AllLinks, AllIdle /\ Receive(t)
      PROVE  BestInv'
  <2>1. CASE UNCHANGED stack
    BY <1>0, <1>1, <1>4, <2>1, ReceiveEffect
  <2>2. CASE t \in Links /\ pc[t] = "idle" /\ pc'[t] = "check"
    <3>1. Updating = {} /\ Updating' = {}
      BY <1>0, <1>4, <2>2, Lone, UpdatingIs DEF Writing
    <3> QED
      BY <1>0, <1>2, <1>4, <2>2, <3>1, ReceiveEffect DEF table
  <2> QED
    BY <1>0, <1>4, <2>1, <2>2, ReceiveEffect
<1>5. ASSUME NEW t \in AllLinks, Fail(t)
      PROVE  BestInv'
  BY <1>1, <1>5, FailEffect
<1>6. CASE UNCHANGED vars
  BY <1>1, <1>6 DEF vars
<1> QED
  BY <1>3, <1>4, <1>5, <1>6 DEF LockStepNext

\* The invariant says what was promised of the table at rest.
LEMMA BestIsBestOffer == TableInv => BestOffer
<1> SUFFICES ASSUME TableInv, AllIdle, NEW s \in Subnets
             PROVE  LET known == UNION {offered[l] : l \in Links}
                        costs == {o[2] : o \in {p \in known : p[1] = s}}
                                   \cup (IF InitialEntry(s).is_valid THEN {InitialEntry(s).cost} ELSE {})
                    IN  /\ dv[s].is_valid <=> costs # {}
                        /\ dv[s].is_valid =>
                             /\ dv[s].cost \in costs /\ \A c \in costs : dv[s].cost <= c
                             /\ \/ dv[s] = InitialEntry(s)
                                \/ <<s, dv[s].cost>> \in offered[dv[s].next_hop_link]
  BY DEF BestOffer
<1> DEFINE known == UNION {offered[l] : l \in Links}
           heard == {o[2] : o \in {p \in known : p[1] = s}}
           costs == heard \cup (IF InitialEntry(s).is_valid THEN {InitialEntry(s).cost} ELSE {})
<1>0. offered \in [Links -> SUBSET (Byte \X Byte)] /\ SlotInv(dv, {}, offered, s)
  BY ConstantFacts DEF TableInv, BestInv, StepsInv, LockInv, IInv, TypeOK, AllIdle, Updating
<1>1. \A c : c \in heard <=> \E l \in Links : <<s, c>> \in offered[l] /\ c \in Byte
  <2>1. ASSUME NEW c \in heard
        PROVE  \E l \in Links : <<s, c>> \in offered[l] /\ c \in Byte
    <3>1. PICK l \in Links : \E p \in offered[l] : p[1] = s /\ p[2] = c
      BY <2>1
    <3>0. PICK p \in offered[l] : p[1] = s /\ p[2] = c
      BY <3>1
    <3>2. p \in Byte \X Byte /\ p = <<p[1], p[2]>>
      BY <1>0, <3>0
    <3> QED
      BY <3>0, <3>2
  <2>2. ASSUME NEW c, NEW l \in Links, <<s, c>> \in offered[l]
        PROVE  c \in heard
    <3>1. <<s, c>> \in {p \in known : p[1] = s} /\ <<s, c>>[2] = c
      BY <2>2
    <3> QED
      BY <3>1
  <2> QED
    BY <2>1, <2>2
<1> HIDE DEF heard
<1>2. /\ costs # {} => dv[s].is_valid
      /\ \A c \in costs : dv[s].cost <= c
  BY <1>0, <1>1 DEF SlotInv
<1>3. ASSUME dv[s].is_valid
      PROVE  /\ dv[s].cost \in costs
             /\ \/ dv[s] = InitialEntry(s)
                \/ <<s, dv[s].cost>> \in offered[dv[s].next_hop_link]
  <2>1. CASE dv[s] = InitialEntry(s)
    BY <1>3, <2>1
  <2>2. CASE dv[s].next_hop_link \in Links /\ <<s, dv[s].cost>> \in offered[dv[s].next_hop_link]
    <3>1. <<s, dv[s].cost>> \in Byte \X Byte
      BY <1>0, <2>2
    <3>2. dv[s].cost \in Byte
      BY <3>1
    <3> QED
      BY <1>1, <2>2, <3>2
  <2> QED
    BY <1>0, <1>3, <2>1, <2>2 DEF SlotInv
<1>4. /\ dv[s].is_valid <=> costs # {}
      /\ dv[s].is_valid =>
           /\ dv[s].cost \in costs /\ \A c \in costs : dv[s].cost <= c
           /\ \/ dv[s] = InitialEntry(s)
              \/ <<s, dv[s].cost>> \in offered[dv[s].next_hop_link]
  <2> HIDE DEF costs
  <2> QED
    BY <1>2, <1>3
<1> QED
  BY <1>4 DEF heard

\* With no call running the table is the cheapest of the initial routes and
\* of all offers accepted so far, with the next hop that made the offer:
\* the loop, its tests and its three stores lose no offer and invent none.
THEOREM TableIsBestOffer == LockStepSpec => []BestOffer
<1>1. Init => TableInv
  BY InitSteps, InitBest DEF TableInv
<1>2. TableInv /\ [LockStepNext]_vars => TableInv'
  BY StepsStep, BestStep DEF TableInv
<1> QED
  BY <1>1, <1>2, BestIsBestOffer, PTL DEF LockStepSpec

-----------------------------------------------------------------------------
(* What the neighbours are told. *)

\* A packet with one more entry tells one more cost.
LEMMA CostsInAppend ==
  ASSUME NEW o \in Seq(CommandEntry), NEW e \in CommandEntry
  PROVE  /\ CostsIn(Append(o, e)) = CostsIn(o) \cup {<<e.dest_subnet, e.cost>>}
         /\ CostsIn(<<>>) = {}
<1>1. DOMAIN Append(o, e) = DOMAIN o \cup {Len(o) + 1}
  OBVIOUS
<1>2. /\ \A k \in DOMAIN o : Append(o, e)[k] = o[k]
      /\ Append(o, e)[Len(o) + 1] = e
  OBVIOUS
<1> DEFINE a == Append(o, e)
           n == Len(o) + 1
<1>3. DOMAIN a = DOMAIN o \cup {n} /\ (\A k \in DOMAIN o : a[k] = o[k]) /\ a[n] = e
  BY <1>1, <1>2
<1> HIDE DEF a, n
<1>4. CostsIn(a) = CostsIn(o) \cup {<<e.dest_subnet, e.cost>>}
  BY <1>3 DEF CostsIn
<1>5. CostsIn(<<>>) = {}
  BY DEF CostsIn
<1> QED
  BY <1>4, <1>5 DEF a

\* The strengthened invariant of what the neighbours know.
InformedInv ==
  /\ StepsInv
  /\ \A t \in AllLinks : CopyInv(t)
  /\ ToldInv

LEMMA InitInformed == Init => InformedInv
<1> SUFFICES ASSUME Init PROVE InformedInv
  OBVIOUS
<1>1. \A t \in AllLinks : CopyInv(t)
  BY DEF Init, CopyInv
<1>2. ASSUME NEW l \in Links PROVE Informed(l)
  BY DEF Init, Informed
<1> QED
  BY <1>1, <1>2, InitSteps DEF InformedInv, ToldInv

\* A change that is stored is copied whole and sent on every link in turn.
LEMMA InformedStep ==
  ASSUME InformedInv, [LockStepNext]_vars
  PROVE  (\A t \in AllLinks : CopyInv(t)') /\ ToldInv'
<1>0. /\ StepsInv /\ LockInv /\ ToldInv /\ dv \in [Subnets -> RouteEntry]
      /\ pc \in [AllLinks -> Locations] /\ frame \in [AllLinks -> Frame]
      /\ view \in [Links -> Seq(CommandEntry)]
      /\ \A u \in AllLinks : CopyInv(u) /\ CallInv(u)
  BY DEF InformedInv, StepsInv, LockInv, IInv, TypeOK
<1> DEFINE Goal == (\A t \in AllLinks : CopyInv(t)') /\ ToldInv'
<1>1. ASSUME UNCHANGED <<dv, stack, view>>, \A l \in Links : Works(l)' => Works(l)
      PROVE  Goal
  <2>1. \A u \in AllLinks : (Quiet(u)' <=> Quiet(u)) /\ CopyInv(u)'
    BY <1>0, <1>1 DEF Quiet, CopyInv, stack
  <2>2. \A l \in Links : Informed(l) => Informed(l)'
    BY <1>1 DEF Informed
  <2> QED
    BY <1>0, <1>1, <2>1, <2>2 DEF ToldInv
<1>2. ASSUME NEW t \in AllLinks, \A u \in AllLinks : u # t => pc[u] = "idle" /\ pc'[u] = "idle",
             CopyInv(t)',
             Quiet(t)' => \/ Quiet(t) /\ UNCHANGED <<dv, view, up>>
                          \/ \A l \in Links : Works(l)' => Informed(l)'
      PROVE  Goal
  <2>1. \A u \in AllLinks : u # t => Quiet(u) /\ CopyInv(u)'
    BY <1>2 DEF Quiet, CopyInv
  <2>2. CASE Quiet(t) /\ UNCHANGED <<dv, view, up>>
    <3>1. \A l \in Links : Works(l) => Informed(l)
      BY <1>0, <2>1, <2>2 DEF ToldInv
    <3>2. \A l \in Links : Works(l)' => Informed(l)'
      BY <2>2, <3>1 DEF Works, Informed
    <3> QED
      BY <1>2, <2>1, <3>2 DEF ToldInv
  <2> QED
    BY <1>2, <2>1, <2>2 DEF ToldInv
<1>3. ASSUME NEW t \in AllLinks, Work(t)
      PROVE  Goal
  <2>0. t \in Links /\ frame[t] \in Frame
    BY <1>0, <1>3, WorkOnLink
  <2>1. \A u \in AllLinks : u # t => pc[u] = "idle" /\ pc'[u] = "idle"
    BY <1>0, <1>3, Lone
  <2>2. CASE Store(t)
    <3>1. pc'[t] \in Writing \cup {"compare"} /\ (pc'[t] = "compare" => frame'[t].changed)
      BY <1>0, <2>2, StoreEffect
    <3>2. CopyInv(t)' /\ ~Quiet(t)'
      BY <3>1 DEF CopyInv, Quiet, Writing
    <3> QED
      BY <1>2, <2>1, <3>2
  <2>3. CASE CompareEntry(t)
    <3>1. /\ pc[t] = "compare" /\ pc'[t] \in {"compare", "count"}
          /\ frame'[t].changed = frame[t].changed \/ frame'[t].changed
          /\ UNCHANGED <<dv, view, up>>
      BY <1>0, <2>3, CompareEffect
    <3>2. CopyInv(t)' /\ (Quiet(t)' => Quiet(t))
      BY <3>1 DEF CopyInv, Quiet
    <3> QED
      BY <1>2, <2>1, <3>1, <3>2
  <2>4. CASE StoreTimestamp(t)
    <3>1. /\ pc[t] = "stamp" /\ pc'[t] = "compare" /\ UNCHANGED <<dv, view, up>>
      BY <1>0, <2>4, StampEffect
    <3>2. CopyInv(t)' /\ Quiet(t)
      BY <3>1 DEF CopyInv, Quiet
    <3> QED
      BY <1>2, <2>1, <3>1, <3>2
  <2>5. CASE EndUpdate(t)
    <3>1. /\ pc[t] = "compare" /\ UNCHANGED <<dv, view, up>>
          /\ IF frame[t].changed
               THEN pc'[t] = "scan" /\ frame'[t].i = 0 /\ frame'[t].out = <<>>
               ELSE pc'[t] = "idle"
      BY <1>0, <2>5, EndEffect
    <3>2. CASE frame[t].changed
      <4>1. CostsIn(frame'[t].out) = {}
        BY <3>1, <3>2 DEF CostsIn
      <4>2. \A d \in Subnets : ~(d < frame'[t].i)
        BY <3>1, <3>2, SizeAssumption DEF Subnets
      <4>3. CopyInv(t)' /\ ~Quiet(t)'
        BY <3>1, <3>2, <4>1, <4>2 DEF CopyInv, Quiet
      <4> QED
        BY <1>2, <2>1, <4>3
    <3>3. CASE ~frame[t].changed
      <4>1. CopyInv(t)' /\ Quiet(t)
        BY <3>1, <3>3 DEF CopyInv, Quiet
      <4> QED
        BY <1>2, <2>1, <3>1, <4>1
    <3> QED
      BY <3>2, <3>3
  <2>6. CASE DropOutdated(t) \/ PassTimestamp(t)
    <3>1. /\ pc[t] = "check" /\ pc'[t] \in {"idle", "stamp"} /\ UNCHANGED <<dv, view, up>>
      BY <1>0, <2>6 DEF DropOutdated, PassTimestamp, Return, Goto, At, table, net
    <3>2. CopyInv(t)' /\ Quiet(t)
      BY <3>1 DEF CopyInv, Quiet
    <3> QED
      BY <1>2, <2>1, <3>1, <3>2
  <2>7. CASE ScanEntry(t)
    <3> DEFINE i == frame[t].i
               o == frame[t].out
               Part(n) == {<<s, dv[s].cost>> : s \in {d \in Subnets : dv[d].is_valid /\ d < n}}
    <3>1. /\ pc[t] = "scan" /\ i \in Nat /\ i <= SUBNET_ADDRESS_MAX
          /\ o \in Seq(CommandEntry) /\ CostsIn(o) = Part(i) /\ dv' = dv
      BY <1>0, <2>0, <2>7 DEF ScanEntry, At, CopyInv, CallInv, Frame, table
    <3>2. ASSUME pc'[t] = "scan", CostsIn(frame'[t].out) = Part(frame'[t].i)
          PROVE  CopyInv(t)' /\ ~Quiet(t)'
      BY <3>1, <3>2 DEF CopyInv, Quiet
    <3>3. ASSUME i < SUBNET_ADDRESS_MAX, dv[i].is_valid, UNCHANGED pc,
                 frame' = [frame EXCEPT ![t].i = i + 1, ![t].out = Append(@, TableEntry(i))]
          PROVE  CopyInv(t)' /\ ~Quiet(t)'
      <4>1. i \in Subnets
        <5>1. i \in Nat /\ i < SUBNET_ADDRESS_MAX
          BY <3>1, <3>3
        <5> HIDE DEF i
        <5> QED
          BY <5>1, SizeAssumption DEF Subnets
      <4>2. TableEntry(i) \in CommandEntry
        BY <1>0, <4>1, ConstantFacts DEF RouteEntry, TableEntry, CommandEntry
      <4>3. frame'[t].i = i + 1 /\ frame'[t].out = Append(o, TableEntry(i))
        BY <1>0, <2>0, <3>3 DEF Frame
      <4>4. CostsIn(Append(o, TableEntry(i))) = Part(i) \cup {<<i, dv[i].cost>>}
        BY <3>1, <4>2, CostsInAppend DEF TableEntry
      <4>5. Part(i + 1) = Part(i) \cup {<<i, dv[i].cost>>}
        <5> HIDE DEF i
        <5>1. \A d \in Subnets : d < i + 1 <=> d < i \/ d = i
          BY <3>1, SizeAssumption DEF Subnets
        <5> QED
          BY <3>3, <4>1, <5>1
      <4>6. CostsIn(frame'[t].out) = Part(i + 1) /\ pc'[t] = "scan"
        <5> HIDE DEF Part
        <5> QED
          BY <3>1, <3>3, <4>3, <4>4, <4>5
      <4>7. CostsIn(frame'[t].out) = Part(frame'[t].i)
        <5> HIDE DEF Part
        <5> QED
          BY <4>3, <4>6
      <4> HIDE DEF Part
      <4> QED
        BY <3>2, <4>6, <4>7
    <3>4. ASSUME i < SUBNET_ADDRESS_MAX, ~dv[i].is_valid, UNCHANGED pc,
                 frame' = [frame EXCEPT ![t].i = i + 1]
          PROVE  CopyInv(t)' /\ ~Quiet(t)'
      <4>1. frame'[t].i = i + 1 /\ frame'[t].out = o
        BY <1>0, <2>0, <3>4 DEF Frame
      <4>2. Part(i + 1) = Part(i)
        <5> HIDE DEF i
        <5>1. \A d \in Subnets : d < i + 1 <=> d < i \/ d = i
          BY <3>1, SizeAssumption DEF Subnets
        <5> QED
          BY <3>4, <5>1
      <4>3. CostsIn(frame'[t].out) = Part(frame'[t].i) /\ pc'[t] = "scan"
        <5> HIDE DEF Part
        <5> QED
          BY <3>1, <3>4, <4>1, <4>2
      <4> HIDE DEF Part
      <4> QED
        BY <3>2, <4>3
    <3>5. ASSUME i >= SUBNET_ADDRESS_MAX, frame' = [frame EXCEPT ![t].i = 0],
                 Goto(t, "send")
          PROVE  CopyInv(t)' /\ ~Quiet(t)'
      <4>1. frame'[t].i = 0 /\ frame'[t].out = o /\ pc'[t] = "send"
        BY <1>0, <2>0, <3>5 DEF Frame, Goto
      <4>2. Part(i) = Costs(dv)
        <5>1. i \in Nat /\ i >= SUBNET_ADDRESS_MAX
          BY <3>1, <3>5
        <5> HIDE DEF i
        <5>2. \A d \in Subnets : d < i
          BY <5>1, SizeAssumption DEF Subnets
        <5> QED
          BY <5>2 DEF Costs
      <4>3. \A l \in Links : ~(l < frame'[t].i)
        BY <4>1, SizeAssumption DEF Links
      <4>4. CostsIn(frame'[t].out) = Costs(dv)
        <5> HIDE DEF Part
        <5> QED
          BY <3>1, <4>1, <4>2
      <4>5. CostsIn(frame'[t].out) = Costs(dv')
        BY <3>1, <4>4
      <4> HIDE DEF Part, i, o
      <4>6. CopyInv(t)'
        BY <4>1, <4>3, <4>5 DEF CopyInv
      <4> QED
        BY <4>1, <4>6 DEF Quiet
    <3>6. CopyInv(t)' /\ ~Quiet(t)'
      <4> HIDE DEF Part
      <4>1. \/ i < SUBNET_ADDRESS_MAX /\ dv[i].is_valid /\ UNCHANGED pc
                 /\ frame' = [frame EXCEPT ![t].i = i + 1, ![t].out = Append(@, TableEntry(i))]
            \/ i < SUBNET_ADDRESS_MAX /\ ~dv[i].is_valid /\ UNCHANGED pc
                 /\ frame' = [frame EXCEPT ![t].i = i + 1]
            \/ i >= SUBNET_ADDRESS_MAX /\ frame' = [frame EXCEPT ![t].i = 0] /\ Goto(t, "send")
        BY <2>7 DEF ScanEntry
      <4> HIDE DEF i
      <4> QED
        BY <3>3, <3>4, <3>5, <4>1
    <3> QED
      BY <1>2, <2>1, <3>6
  <2>8. CASE SendTable(t) \/ SendBroken(t)
    <3> DEFINE i == frame[t].i
    <3>1. /\ pc[t] = "send" /\ i \in Links /\ CostsIn(frame[t].out) = Costs(dv)
          /\ \A l \in Links : l < i /\ Works(l) => CostsIn(view[l]) = Costs(dv)
          /\ dv' = dv /\ up' = up
      BY <1>0, <2>8 DEF SendTable, SendBroken, At, CopyInv, CallInv, table, net
    <3>2. \A l \in Links : (l <= i /\ Works(l) => CostsIn(view'[l]) = Costs(dv))
      <4>1. CASE SendTable(t)
        <5>1. view' = [view EXCEPT ![i] = frame[t].out]
          BY <4>1 DEF SendTable
        <5> HIDE DEF i
        <5>2. \A l \in Links : l <= i => l = i \/ l < i
          BY <3>1 DEF Links
        <5> QED
          BY <1>0, <3>1, <5>1, <5>2
      <4>2. CASE SendBroken(t)
        <5>1. ~up[i] /\ view' = view
          BY <4>2 DEF SendBroken
        <5> HIDE DEF i
        <5>2. \A l \in Links : l <= i => (l = i /\ i \in 0 .. l) \/ l < i
          BY <3>1 DEF Links
        <5> QED
          BY <3>1, <5>1, <5>2 DEF Works
      <4> QED
        BY <2>8, <4>1, <4>2
    <3>3. \A l \in Links : Works(l)' <=> Works(l)
      BY <3>1 DEF Works
    <3>4. CASE /\ pc'[t] = "send" /\ frame'[t].i = i + 1 /\ frame'[t].out = frame[t].out
      <4>1. \A l \in Links : l < i + 1 => l <= i
        BY <3>1 DEF Links
      <4>2. CopyInv(t)' /\ ~Quiet(t)'
        BY <3>1, <3>2, <3>3, <3>4, <4>1 DEF CopyInv, Quiet
      <4> QED
        BY <1>2, <2>1, <4>2
    <3>5. CASE pc'[t] = "idle" /\ \A l \in Links : Works(l) => l <= i
      <4>1. CopyInv(t)' /\ \A l \in Links : Works(l)' => Informed(l)'
        BY <3>1, <3>2, <3>3, <3>5 DEF CopyInv, Informed
      <4> QED
        BY <1>2, <2>1, <4>1
    <3>6. CASE NextLink(t)
      <4>1. CASE i + 1 < ROUTER_LINK_COUNT
        <5>1. pc' = pc /\ frame' = [frame EXCEPT ![t].i = @ + 1]
          BY <3>6, <4>1 DEF NextLink
        <5>2. frame'[t].i = i + 1 /\ frame'[t].out = frame[t].out
          BY <1>0, <2>0, <5>1 DEF Frame
        <5> QED
          BY <3>1, <3>4, <5>1, <5>2
      <4>2. CASE ~(i + 1 < ROUTER_LINK_COUNT)
        <5>1. pc'[t] = "idle"
          BY <1>0, <3>6, <4>2 DEF NextLink, Return, Goto
        <5>2. \A l \in Links : l <= i
          BY <3>1, <4>2, SizeAssumption DEF Links
        <5> QED
          BY <3>5, <5>1, <5>2
      <4> QED
        BY <4>1, <4>2
    <3>7. CASE SendBroken(t) /\ Return(t)
      <4>1. pc'[t] = "idle" /\ ~up[i]
        BY <1>0, <3>7 DEF SendBroken, Return, Goto
      <4> HIDE DEF i
      <4>2. ASSUME NEW l \in Links, ~(l <= i) PROVE ~Works(l)
        <5>1. i \in 0 .. l
          BY <3>1, <4>2 DEF Links
        <5> QED
          BY <4>1, <5>1 DEF Works
      <4> QED
        BY <3>5, <4>1, <4>2
    <3>8. CASE SendBroken(t) /\ UNCHANGED stack
      BY <1>1, <3>1, <3>3, <3>8 DEF SendBroken
    <3> QED
      BY <2>8, <3>6, <3>7, <3>8 DEF SendTable, SendBroken
  <2> QED
    BY <1>3, <2>2, <2>3, <2>4, <2>5, <2>6, <2>7, <2>8 DEF Work, Store
<1>4. ASSUME NEW t \in AllLinks, AllIdle /\ Receive(t)
      PROVE  Goal
  <2>1. UNCHANGED <<dv, view, up>>
    BY <1>0, <1>4, ReceiveEffect DEF table, net
  <2>2. CASE UNCHANGED stack
    BY <1>1, <2>1, <2>2 DEF Works
  <2>3. CASE pc[t] = "idle" /\ pc'[t] = "check"
    <3>1. CopyInv(t)' /\ Quiet(t)
      BY <2>3 DEF CopyInv, Quiet
    <3> QED
      BY <1>0, <1>2, <1>4, <2>1, <3>1, Lone
  <2> QED
    BY <1>0, <1>4, <2>2, <2>3, ReceiveEffect
<1>5. ASSUME NEW t \in AllLinks, Fail(t)
      PROVE  Goal
  <2>1. UNCHANGED <<dv, stack, view>>
    BY <1>5, FailEffect DEF table
  <2>2. \A l \in AllLinks : up'[l] => up[l]
    BY <1>0, <1>5 DEF Fail, LinkBreak, ReadBroken, LockInv, IInv, TypeOK
  <2>3. \A l \in Links : Works(l)' => Works(l)
    <3>1. \A l \in Links : 0 .. l \subseteq AllLinks
      BY SizeAssumption DEF Links, AllLinks, APP_LINK
    <3> QED
      BY <2>2, <3>1 DEF Works
  <2> QED
    BY <1>1, <2>1, <2>3
<1>6. CASE UNCHANGED vars
  BY <1>1, <1>6 DEF vars, table, net, Works
<1> QED
  BY <1>3, <1>4, <1>5, <1>6 DEF LockStepNext

\* A table keeps what the neighbours were told: it has every route they were
\* told of, at that cost or less.
Keeps(tbl, vw) ==
  \A l \in Links : \A p \in CostsIn(vw[l]) :
    p[1] \in Subnets /\ tbl[p[1]].is_valid /\ tbl[p[1]].cost <= p[2]

\* The table keeps it, and so does the table a store under way is making.
PromiseInv == Keeps(dv, view) /\ \A t \in Updating : Keeps(StoreDone(t), view)

LEMMA InitPromise == Init => PromiseInv
<1> SUFFICES ASSUME Init PROVE PromiseInv
  OBVIOUS
<1>1. Updating = {}
  BY ConstantFacts DEF Init, Updating
<1>2. \A l \in Links : CostsIn(view[l]) = {}
  BY DEF Init, CostsIn
<1> QED
  BY <1>1, <1>2 DEF PromiseInv, Keeps

\* The table keeps what it says itself.
LEMMA KeepsOwn ==
  ASSUME dv \in [Subnets -> RouteEntry], NEW p \in Costs(dv)
  PROVE  p[1] \in Subnets /\ dv[p[1]].is_valid /\ dv[p[1]].cost <= p[2]
<1>1. PICK s \in Subnets : dv[s].is_valid /\ p = <<s, dv[s].cost>>
  BY DEF Costs
<1>2. dv[s].cost \in Int
  BY <1>1 DEF RouteEntry, Byte
<1> QED
  BY <1>1, <1>2

\* A single store changes an entry to what it was or to what it is to be.
LEMMA StoreHalf ==
  ASSUME StepsInv, NEW t \in AllLinks, Store(t), NEW s \in Subnets
  PROVE  /\ dv[s].is_valid => dv'[s].is_valid
         /\ dv'[s].cost \in {dv[s].cost, StoreDone(t)[s].cost}
<1>0. /\ LockInv /\ CallInv(t) /\ dv \in [Subnets -> RouteEntry]
  BY DEF StepsInv, LockInv, IInv, TypeOK
<1>1. t \in Links
  BY <1>0, WorkOnLink DEF Store, Work
<1> DEFINE d == Entry(t).dest_subnet
           c == Offer(t)
<1>2. d \in Subnets /\ StoreDone(t) = [dv EXCEPT ![d] = Route(c, t)]
  BY <1>0 DEF CallInv, Store, CountEntry, BumpCount, SetValid, SetCost, SetHop,
              At, Writing, StoreDone
<1>3. \/ dv' = dv
      \/ dv' = [dv EXCEPT ![d].is_valid = TRUE]
      \/ dv' = [dv EXCEPT ![d].cost = c]
      \/ dv' = [dv EXCEPT ![d].next_hop_link = t]
  BY DEF Store, CountEntry, BumpCount, SetValid, SetCost, SetHop, table
<1> HIDE DEF d, c
<1>4. StoreDone(t)[d].cost = c
  BY <1>0, <1>2 DEF Route
<1>5. dv[s] \in RouteEntry /\ dv[d] \in RouteEntry
  BY <1>0, <1>2
<1>6. CASE s # d
  <2>1. dv'[s] = dv[s]
    BY <1>0, <1>2, <1>3, <1>6
  <2> QED
    BY <2>1
<1>7. CASE s = d
  <2>1. dv'[s].is_valid = dv[s].is_valid \/ dv'[s].is_valid
    BY <1>0, <1>2, <1>3, <1>5, <1>7 DEF RouteEntry
  <2>2. dv'[s].cost = dv[s].cost \/ dv'[s].cost = c
    BY <1>0, <1>2, <1>3, <1>5, <1>7 DEF RouteEntry
  <2> QED
    BY <1>4, <1>7, <2>1, <2>2
<1> QED
  BY <1>6, <1>7

\* A route is only ever replaced by a cheaper one, also half stored.
LEMMA PromiseStep ==
  ASSUME InformedInv, PromiseInv, [LockStepNext]_vars
  PROVE  PromiseInv'
<1>0. /\ StepsInv /\ LockInv /\ dv \in [Subnets -> RouteEntry]
      /\ view \in [Links -> Seq(CommandEntry)]
      /\ Keeps(dv, view) /\ \A t \in Updating : Keeps(StoreDone(t), view)
      /\ \A u \in AllLinks : CopyInv(u) /\ CallInv(u)
  BY DEF InformedInv, PromiseInv, StepsInv, LockInv, IInv, TypeOK
<1>1. CASE UNCHANGED <<table, stack, view>>
  <2>1. Updating' = Updating /\ dv' = dv /\ view' = view
    BY <1>1 DEF table, stack, Updating
  <2>2. \A t \in Links : StoreDone(t)' = StoreDone(t)
    BY <1>1 DEF table, stack, StoreDone, Entry, Offer
  <2>3. \A t \in Updating : t \in Links
    BY DEF Updating
  <2> QED
    BY <1>0, <2>1, <2>2, <2>3 DEF PromiseInv
<1>2. ASSUME NEW t \in AllLinks, Work(t)
      PROVE  PromiseInv'
  <2> DEFINE U == Writing \cup {"compare"}
  <2>1. /\ t \in Links
        /\ Updating = IF pc[t] \in U THEN {t} ELSE {}
        /\ Updating' = IF pc'[t] \in U THEN {t} ELSE {}
    BY <1>0, <1>2, WorkOnLink, Lone, UpdatingIs
  <2>2. ASSUME Updating' \subseteq {t}, dv' = dv, view' = view,
               pc'[t] \in U => Keeps(StoreDone(t)', view)
        PROVE  PromiseInv'
    BY <1>0, <2>1, <2>2 DEF PromiseInv
  <2>3. CASE Store(t)
    <3>1. /\ Updating = {t} /\ Updating' = {t}
          /\ StoreDone(t)' = StoreDone(t) /\ view' = view
      BY <1>0, <2>1, <2>3, StoreEffect
    <3>2. Keeps(StoreDone(t), view)
      BY <1>0, <3>1
    <3>3. Keeps(dv', view)
      <4> SUFFICES ASSUME NEW l \in Links, NEW p \in CostsIn(view[l])
                   PROVE  p[1] \in Subnets /\ dv'[p[1]].is_valid /\ dv'[p[1]].cost <= p[2]
        BY DEF Keeps
      <4>1. /\ p[1] \in Subnets /\ dv[p[1]].is_valid /\ dv[p[1]].cost <= p[2]
            /\ StoreDone(t)[p[1]].cost <= p[2]
        BY <1>0, <3>2 DEF Keeps
      <4>2. /\ dv'[p[1]].is_valid
            /\ dv'[p[1]].cost \in {dv[p[1]].cost, StoreDone(t)[p[1]].cost}
        BY <1>0, <2>3, <4>1, StoreHalf
      <4> QED
        BY <4>1, <4>2
    <3> QED
      BY <3>1, <3>2, <3>3 DEF PromiseInv
  <2>4. CASE CompareEntry(t)
    <3> DEFINE d == Entry(t).dest_subnet
               c == Offer(t)
    <3>1. dv' = dv /\ view' = view /\ c \in Byte
      BY <1>0, <2>4, CompareEffect
    <3>2. (d \in Subnets /\ Improves(t) /\ StoreDone(t)' = [dv EXCEPT ![d] = Route(c, t)])
            \/ StoreDone(t)' = dv
      BY <1>0, <2>4, CompareEffect
    <3>3. Improves(t) <=> ~dv[d].is_valid \/ dv[d].cost > c
      BY DEF Improves
    <3> HIDE DEF d, c
    <3>4. CASE d \in Subnets /\ Improves(t) /\ StoreDone(t)' = [dv EXCEPT ![d] = Route(c, t)]
      <4> DEFINE new == [dv EXCEPT ![d] = Route(c, t)]
      <4>1. Keeps(new, view)
        <5> SUFFICES ASSUME NEW l \in Links, NEW p \in CostsIn(view[l])
                     PROVE  p[1] \in Subnets /\ new[p[1]].is_valid /\ new[p[1]].cost <= p[2]
          BY DEF Keeps
        <5>1. p[1] \in Subnets /\ dv[p[1]].is_valid /\ dv[p[1]].cost <= p[2]
          BY <1>0 DEF Keeps
        <5>2. CASE p[1] # d
          BY <1>0, <5>1, <5>2
        <5>3. CASE p[1] = d
          <6>1. new[p[1]] = Route(c, t)
            BY <1>0, <3>4, <5>3
          <6>2. new[p[1]].is_valid /\ new[p[1]].cost = c
            BY <6>1 DEF Route
          <6>3. d \in Subnets /\ dv[d] \in RouteEntry /\ dv[d].is_valid /\ dv[d].cost > c
            BY <1>0, <3>3, <3>4, <5>1, <5>3
          <6>4. dv[d].cost \in Int /\ c \in Int
            BY <3>1, <6>3 DEF RouteEntry, Byte
          <6>5. p[2] \in Int
            <7>1. PICK k \in DOMAIN view[l] : p = <<view[l][k].dest_subnet, view[l][k].cost>>
              BY DEF CostsIn
            <7>2. view[l][k] \in CommandEntry
              BY <1>0, <7>1
            <7> QED
              BY <7>1, <7>2 DEF CommandEntry, Byte
          <6> HIDE DEF new
          <6> QED
            BY <5>1, <5>3, <6>2, <6>3, <6>4, <6>5
        <5> QED
          BY <5>2, <5>3
      <4> QED
        BY <2>1, <2>2, <3>1, <3>4, <4>1
    <3>5. CASE StoreDone(t)' = dv
      BY <1>0, <2>1, <2>2, <3>1, <3>5
    <3> QED
      BY <3>2, <3>4, <3>5
  <2>5. CASE StoreTimestamp(t)
    <3>1. StoreDone(t)' = dv /\ dv' = dv /\ view' = view
      BY <1>0, <2>5, StampEffect
    <3> QED
      BY <1>0, <2>1, <2>2, <3>1
  <2>6. CASE EndUpdate(t)
    <3>1. pc'[t] \notin U /\ dv' = dv /\ view' = view
      BY <1>0, <2>6, EndEffect DEF Writing, EndUpdate
    <3> QED
      BY <2>1, <2>2, <3>1
  <2>7. CASE DropOutdated(t) \/ PassTimestamp(t) \/ ScanEntry(t) \/ SendBroken(t)
    <3>1. pc'[t] \notin U /\ dv' = dv
      BY <1>0, <2>7, OtherEffect DEF Writing
    <3>2. view' = view
      BY <2>7 DEF DropOutdated, PassTimestamp, ScanEntry, SendBroken
    <3> QED
      BY <2>1, <2>2, <3>1, <3>2
  <2>8. CASE SendTable(t)
    <3> DEFINE i == frame[t].i
    <3>1. pc'[t] \notin U /\ dv' = dv
      BY <1>0, <2>8, OtherEffect DEF Writing
    <3>2. /\ i \in Links /\ CostsIn(frame[t].out) = Costs(dv)
          /\ view' = [view EXCEPT ![i] = frame[t].out]
      BY <1>0, <2>8 DEF SendTable, At, CopyInv, CallInv
    <3> HIDE DEF i
    <3>3. Keeps(dv, view')
      <4> SUFFICES ASSUME NEW l \in Links, NEW p \in CostsIn(view'[l])
                   PROVE  p[1] \in Subnets /\ dv[p[1]].is_valid /\ dv[p[1]].cost <= p[2]
        BY DEF Keeps
      <4>1. CASE l = i
        <5>1. p \in Costs(dv)
          BY <1>0, <3>2, <4>1
        <5> QED
          BY <1>0, <5>1, KeepsOwn
      <4>2. CASE l # i
        <5>1. p \in CostsIn(view[l])
          BY <1>0, <3>2, <4>2
        <5> QED
          BY <1>0, <5>1 DEF Keeps
      <4> QED
        BY <4>1, <4>2
    <3>4. Updating' = {}
      BY <2>1, <3>1
    <3> QED
      BY <3>1, <3>3, <3>4 DEF PromiseInv
  <2> QED
    BY <1>2, <2>3, <2>4, <2>5, <2>6, <2>7, <2>8 DEF Work, Store
<1>3. ASSUME NEW t \in AllLinks, AllIdle /\ Receive(t)
      PROVE  PromiseInv'
  <2>1. CASE UNCHANGED stack
    BY <1>0, <1>1, <1>3, <2>1, ReceiveEffect
  <2>2. CASE t \in Links /\ pc[t] = "idle" /\ pc'[t] = "check"
    <3>1. Updating' = {}
      BY <1>0, <1>3, <2>2, Lone, UpdatingIs DEF Writing
    <3> QED
      BY <1>0, <1>3, <3>1, ReceiveEffect DEF PromiseInv, table
  <2> QED
    BY <1>0, <1>3, <2>1, <2>2, ReceiveEffect
<1>4. ASSUME NEW t \in AllLinks, Fail(t)
      PROVE  PromiseInv'
  BY <1>1, <1>4, FailEffect
<1>5. CASE UNCHANGED vars
  BY <1>1, <1>5 DEF vars
<1> QED
  BY <1>2, <1>3, <1>4, <1>5 DEF LockStepNext

\* Whatever breaks, no neighbour is ever left with a promise the router does
\* not keep, and with no call running each one has the router's current costs
\* unless a link up to its own broke or nothing ever changed: no change goes
\* unsent, and none is sent half.
THEOREM NeighboursAreInformed == LockStepSpec => []NeighboursInformed
<1> DEFINE Inv == InformedInv /\ PromiseInv
<1>1. Init => Inv
  BY InitInformed, InitPromise
<1>2. Inv /\ [LockStepNext]_vars => Inv'
  BY StepsStep, InformedStep, PromiseStep DEF InformedInv
<1>3. Inv => NeighboursInformed
  <2>1. InformedInv /\ AllIdle => \A l \in Links : Works(l) => Informed(l)
    BY DEF InformedInv, ToldInv, Quiet, AllIdle
  <2> QED
    BY <2>1 DEF PromiseInv, Keeps, NeighboursInformed, Works, Informed
<1> QED
  BY <1>1, <1>2, <1>3, PTL DEF LockStepSpec

-----------------------------------------------------------------------------
(* The abstract table: what a merge does. *)

\* A set of numbers that is not empty has a least one.
LEMMA LeastExists ==
  ASSUME NEW S \in SUBSET Nat, S # {}
  PROVE  \E x \in S : \A y \in S : x <= y
<1> DEFINE R == OpToRel(<, Nat)
<1>1. IsWellFoundedOn(R, Nat)
  BY NatLessThanWellFounded
<1>2. \A x, y \in Nat : <<y, x>> \in R <=> y < x
  BY DEF OpToRel
<1> HIDE DEF R
<1>3. PICK x \in S : \A y \in S : ~(<<y, x>> \in R)
  BY <1>1, WFMin
<1>4. ASSUME NEW y \in S PROVE x <= y
  <2>1. x \in Nat /\ y \in Nat /\ ~(y < x)
    BY <1>2, <1>3
  <2> QED
    BY <2>1
<1> QED
  BY <1>4

\* Least() finds it.
LEMMA LeastIs ==
  ASSUME NEW S \in SUBSET Nat, NEW x \in S, \A y \in S : x <= y
  PROVE  Spare!Least(S) = x /\ Abstract!Least(S) = x
<1>1. \A z \in S : (\A y \in S : z <= y) => z = x
  BY Z3
<1> QED
  BY <1>1 DEF Spare!Least, Abstract!Least

\* The merge of either instance of RouteTable.
Merged(old, offers, l) == Spare!Merge(old, offers, l)

LEMMA MergesAgree ==
  ASSUME NEW old, NEW offers, NEW l
  PROVE  Abstract!Merge(old, offers, l) = Merged(old, offers, l)
BY DEF Merged, Abstract!Merge, Spare!Merge, Abstract!Least, Spare!Least, Abstract!Subnets,
       Spare!Subnets, Abstract!Route, Spare!Route

\* dv_set_entry() is called for an offer that beats the entry.
Beats(e, c) == ~e.is_valid \/ e.cost > c

\* No offer for slot s beats the entry e; the cheapest offer for slot s.
Unbeaten(e, offers, s) == \A c \in Byte : <<s, c>> \in offers => ~Beats(e, c)
Cheapest(offers, s, m) == /\ m \in Byte /\ <<s, m>> \in offers
                          /\ \A c \in Byte : <<s, c>> \in offers => m <= c

\* A slot that no offer beats is kept; otherwise the cheapest offer is
\* stored.  One of the two applies.
LEMMA MergeSlot ==
  ASSUME NEW old \in [Subnets -> RouteEntry], NEW offers \in SUBSET (Byte \X Byte),
         NEW l \in Links, NEW s \in Subnets
  PROVE  /\ Unbeaten(old[s], offers, s) => Merged(old, offers, l)[s] = old[s]
         /\ \A m : Cheapest(offers, s, m) /\ Beats(old[s], m)
                     => Merged(old, offers, l)[s] = Route(m, l)
         /\ Unbeaten(old[s], offers, s)
              \/ \E m \in Byte : Cheapest(offers, s, m) /\ Beats(old[s], m)
<1> DEFINE new   == Merged(old, offers, l)
           costs == {o[2] : o \in {p \in offers : p[1] = s}}
           kept  == costs = {} \/ (old[s].is_valid /\ old[s].cost <= Spare!Least(costs))
<1>1. new[s] = IF kept THEN old[s] ELSE Route(Spare!Least(costs), l)
  BY DEF Merged, Spare!Merge, Spare!Subnets, Spare!Route, Subnets, Route
<1>2. \A c : c \in costs <=> c \in Byte /\ <<s, c>> \in offers
  <2>1. ASSUME NEW c \in costs PROVE c \in Byte /\ <<s, c>> \in offers
    <3>1. PICK p \in offers : p[1] = s /\ p[2] = c
      BY <2>1
    <3>2. p \in Byte \X Byte
      OBVIOUS
    <3>3. p = <<p[1], p[2]>> /\ p[2] \in Byte
      BY <3>2
    <3> QED
      BY <3>1, <3>3
  <2>2. ASSUME NEW c, <<s, c>> \in offers PROVE c \in costs
    <3>1. <<s, c>> \in {p \in offers : p[1] = s} /\ <<s, c>>[2] = c
      BY <2>2
    <3> QED
      BY <3>1
  <2> QED
    BY <2>1, <2>2
<1>3. costs \in SUBSET Nat /\ Byte \subseteq Nat
  BY <1>2 DEF Byte
<1>4. old[s].cost \in Nat
  <2>1. old[s] \in RouteEntry
    OBVIOUS
  <2> QED
    BY <2>1 DEF RouteEntry, Byte
<1>5. \A m \in Nat : Beats(old[s], m) <=> ~(old[s].is_valid /\ old[s].cost <= m)
  BY <1>4 DEF Beats
<1> HIDE DEF costs
<1>6. ASSUME Unbeaten(old[s], offers, s)
      PROVE  new[s] = old[s]
  <2>1. CASE costs = {}
    BY <1>1, <2>1
  <2>2. CASE costs # {}
    <3>1. PICK x \in costs : \A y \in costs : x <= y
      BY <1>3, <2>2, LeastExists
    <3>2. Spare!Least(costs) = x /\ x \in Byte /\ x \in Nat /\ <<s, x>> \in offers
      BY <1>2, <1>3, <3>1, LeastIs
    <3>3. kept
      BY <1>5, <1>6, <3>2 DEF Unbeaten
    <3> QED
      BY <1>1, <3>3
  <2> QED
    BY <2>1, <2>2
<1>7. ASSUME NEW m, Cheapest(offers, s, m), Beats(old[s], m)
      PROVE  new[s] = Route(m, l)
  <2>1. m \in costs /\ m \in Nat /\ Spare!Least(costs) = m
    BY <1>2, <1>3, <1>7, LeastIs DEF Cheapest
  <2>2. ~kept
    BY <1>5, <1>7, <2>1
  <2> QED
    BY <1>1, <2>1, <2>2
<1>8. ASSUME NEW b \in Byte, <<s, b>> \in offers, Beats(old[s], b)
      PROVE  \E m \in Byte : Cheapest(offers, s, m) /\ Beats(old[s], m)
  <2>1. PICK x \in costs : \A y \in costs : x <= y
    BY <1>2, <1>3, <1>8, LeastExists
  <2>2. x \in Byte /\ <<s, x>> \in offers /\ x <= b
    BY <1>2, <1>8, <2>1
  <2>3. x \in Nat /\ b \in Nat
    BY <1>3, <2>2
  <2>4. Beats(old[s], x)
    BY <1>4, <1>8, <2>2, <2>3 DEF Beats
  <2>5. Cheapest(offers, s, x)
    BY <1>2, <2>1, <2>2 DEF Cheapest
  <2> QED
    BY <2>2, <2>4, <2>5
<1> QED
  BY <1>6, <1>7, <1>8 DEF Unbeaten

\* The first two, to be cited for one table and one set of offers.
LEMMA MergeKeeps ==
  ASSUME NEW old \in [Subnets -> RouteEntry], NEW offers \in SUBSET (Byte \X Byte),
         NEW l \in Links, NEW s \in Subnets, Unbeaten(old[s], offers, s)
  PROVE  Merged(old, offers, l)[s] = old[s]
BY MergeSlot, Z3

LEMMA MergeTakes ==
  ASSUME NEW old \in [Subnets -> RouteEntry], NEW offers \in SUBSET (Byte \X Byte),
         NEW l \in Links, NEW s \in Subnets, NEW m,
         Cheapest(offers, s, m), Beats(old[s], m)
  PROVE  Merged(old, offers, l)[s] = Route(m, l)
BY MergeSlot, Z3

\* A merge is a function of the subnets.
LEMMA MergeDomain ==
  ASSUME NEW old, NEW offers, NEW l
  PROVE  Merged(old, offers, l) = [s \in Subnets |-> Merged(old, offers, l)[s]]
BY DEF Merged, Spare!Merge, Spare!Subnets, Spare!Route, Subnets, Route

\* Two merges are equal if they are in every slot.
LEMMA MergesEqual ==
  ASSUME NEW old1, NEW offers1, NEW old2, NEW offers2, NEW l,
         \A s \in Subnets : Merged(old1, offers1, l)[s] = Merged(old2, offers2, l)[s]
  PROVE  Merged(old1, offers1, l) = Merged(old2, offers2, l)
<1> DEFINE one == Merged(old1, offers1, l)
           two == Merged(old2, offers2, l)
<1>1. one = [s \in Subnets |-> one[s]] /\ two = [s \in Subnets |-> two[s]]
  BY MergeDomain
<1>2. \A s \in Subnets : one[s] = two[s]
  OBVIOUS
<1> HIDE DEF one, two
<1>3. one = two
  BY <1>1, <1>2
<1> QED
  BY <1>3 DEF one, two

LEMMA ByteNat == Byte \subseteq Nat
BY DEF Byte

\* Merging one offer first, when it is better than the slot, ...
LEMMA MergeStored ==
  ASSUME NEW old \in [Subnets -> RouteEntry], NEW mid \in [Subnets -> RouteEntry],
         NEW offers \in SUBSET (Byte \X Byte), NEW all \in SUBSET (Byte \X Byte),
         NEW l \in Links, NEW d \in Subnets, NEW c \in Byte, Beats(old[d], c),
         mid[d] = Route(c, l), \A s \in Subnets : s # d => mid[s] = old[s],
         \A s \in Subnets, b \in Byte :
            <<s, b>> \in all <=> <<s, b>> \in offers \/ (s = d /\ b = c)
  PROVE  Merged(old, all, l) = Merged(mid, offers, l)
<1>1. Byte \subseteq Nat
  BY ByteNat
<1>5. \A b \in Byte : Beats(Route(c, l), b) <=> c > b
  BY DEF Beats, Route
<1>6. \A b \in Byte : c > b => Beats(old[d], b)
  <2>1. old[d] \in RouteEntry
    OBVIOUS
  <2>2. old[d].cost \in Nat
    BY <1>1, <2>1 DEF RouteEntry
  <2> QED
    BY <1>1, <2>2 DEF Beats
<1>7. ASSUME NEW s \in Subnets
      PROVE  Merged(old, all, l)[s] = Merged(mid, offers, l)[s]
  <2>1. CASE s # d
    <3>1. mid[s] = old[s] /\ \A m : Cheapest(offers, s, m) <=> Cheapest(all, s, m)
      BY <2>1 DEF Cheapest
    <3>2. CASE Unbeaten(old[s], offers, s)
      <4>1. Unbeaten(old[s], all, s) /\ Unbeaten(mid[s], offers, s)
        BY <2>1, <3>1, <3>2 DEF Unbeaten
      <4>2. Merged(old, all, l)[s] = old[s] /\ Merged(mid, offers, l)[s] = mid[s]
        BY <4>1, MergeKeeps
      <4> QED
        BY <3>1, <4>2
    <3>3. ASSUME NEW m \in Byte, Cheapest(offers, s, m), Beats(old[s], m)
          PROVE  Merged(old, all, l)[s] = Merged(mid, offers, l)[s]
      <4>1. Merged(old, all, l)[s] = Route(m, l)
        BY <3>1, <3>3, MergeTakes, Z3
      <4>2. Merged(mid, offers, l)[s] = Route(m, l)
        BY <3>1, <3>3, MergeTakes
      <4> QED
        BY <4>1, <4>2
    <3> QED
      BY <3>2, <3>3, MergeSlot
  <2>2. CASE s = d
    <3>1. CASE Unbeaten(mid[d], offers, d)
      <4>1. Cheapest(all, d, c) /\ Beats(old[d], c)
        BY <1>1, <1>5, <3>1 DEF Unbeaten, Cheapest
      <4>2. Merged(old, all, l)[d] = Route(c, l)
        <5>1. ASSUME NEW m \in Byte, Cheapest(all, d, m), Beats(old[d], m)
              PROVE  Merged(old, all, l)[d] = Route(m, l)
          BY <5>1, MergeTakes, Z3
        <5> QED
          BY <4>1, <5>1
      <4>3. Merged(mid, offers, l)[d] = mid[d]
        BY <3>1, MergeKeeps
      <4> QED
        BY <2>2, <4>2, <4>3
    <3>2. ASSUME NEW m \in Byte, Cheapest(offers, d, m), Beats(mid[d], m)
          PROVE  Merged(old, all, l)[d] = Merged(mid, offers, l)[d]
      <4>1. Cheapest(all, d, m) /\ Beats(old[d], m)
        BY <1>1, <1>5, <1>6, <3>2 DEF Cheapest
      <4>2. Merged(old, all, l)[d] = Route(m, l)
        BY <4>1, MergeTakes, Z3
      <4>3. Merged(mid, offers, l)[d] = Route(m, l)
        BY <3>2, MergeTakes, Z3
      <4> QED
        BY <4>2, <4>3
    <3> QED
      BY <2>2, <3>1, <3>2, MergeSlot
  <2> QED
    BY <2>1, <2>2
<1> QED
  BY <1>7, MergesEqual

\* ... passing over one that is not, and merging nothing.
LEMMA MergePassed ==
  ASSUME NEW old \in [Subnets -> RouteEntry], NEW offers \in SUBSET (Byte \X Byte),
         NEW l \in Links, NEW d \in Byte, NEW c \in Byte,
         d \in Subnets => ~Beats(old[d], c)
  PROVE  Merged(old, offers \cup {<<d, c>>}, l) = Merged(old, offers, l)
<1> DEFINE all == offers \cup {<<d, c>>}
<1>1. all \in SUBSET (Byte \X Byte)
  OBVIOUS
<1>2. \A s \in Subnets, b \in Byte : <<s, b>> \in all <=> <<s, b>> \in offers \/ (s = d /\ b = c)
  OBVIOUS
<1> HIDE DEF all
<1>3. ASSUME NEW s \in Subnets
      PROVE  Merged(old, all, l)[s] = Merged(old, offers, l)[s]
  <2>1. CASE Unbeaten(old[s], offers, s)
    <3>1. Unbeaten(old[s], all, s)
      BY <1>2, <2>1 DEF Unbeaten
    <3> QED
      BY <1>1, <2>1, <3>1, MergeKeeps
  <2>2. ASSUME NEW m \in Byte, Cheapest(offers, s, m), Beats(old[s], m)
        PROVE  Merged(old, all, l)[s] = Merged(old, offers, l)[s]
    <3>1. s = d => m <= c
      <4>1. old[s] \in RouteEntry
        OBVIOUS
      <4>2. old[s].cost \in Nat /\ m \in Nat /\ c \in Nat
        BY <4>1 DEF RouteEntry, Byte
      <4> QED
        BY <2>2, <4>2 DEF Beats
    <3>2. Cheapest(all, s, m)
      BY <1>2, <2>2, <3>1 DEF Cheapest
    <3>3. Merged(old, all, l)[s] = Route(m, l)
      BY <1>1, <2>2, <3>2, MergeTakes
    <3>4. Merged(old, offers, l)[s] = Route(m, l)
      BY <2>2, MergeTakes
    <3> QED
      BY <3>3, <3>4
  <2> QED
    BY <2>1, <2>2, MergeSlot
<1>4. Merged(old, all, l) = Merged(old, offers, l)
  BY <1>3, MergesEqual
<1> QED
  BY <1>4 DEF all

LEMMA MergeNothing ==
  ASSUME NEW old \in [Subnets -> RouteEntry], NEW l \in Links
  PROVE  Merged(old, {}, l) = old
<1> DEFINE one == Merged(old, {}, l)
<1>1. \A s \in Subnets : one[s] = old[s]
  BY MergeSlot DEF Unbeaten
<1>2. one = [s \in Subnets |-> one[s]]
  BY MergeDomain
<1> HIDE DEF one
<1>3. one = old
  BY <1>1, <1>2
<1> QED
  BY <1>3 DEF one

\* An offer that is better changes the table.
LEMMA MergeChanges ==
  ASSUME NEW old \in [Subnets -> RouteEntry], NEW offers \in SUBSET (Byte \X Byte),
         NEW l \in Links, NEW d \in Subnets, NEW c \in Byte, <<d, c>> \in offers,
         Beats(old[d], c)
  PROVE  Merged(old, offers, l) # old
<1>1. ~Unbeaten(old[d], offers, d)
  BY DEF Unbeaten
<1>2. PICK m \in Byte : Cheapest(offers, d, m) /\ Beats(old[d], m)
  BY <1>1, MergeSlot
<1>3. Merged(old, offers, l)[d] = Route(m, l)
  BY <1>2, MergeTakes
<1>4. old[d] # Route(m, l)
  <2>1. old[d] = Route(m, l) => old[d].is_valid /\ old[d].cost = m
    BY DEF Route
  <2>2. ~(m > m)
    BY DEF Byte
  <2> QED
    BY <1>2, <2>1, <2>2 DEF Beats
<1> QED
  BY <1>3, <1>4

-----------------------------------------------------------------------------
(* The refinement mapping. *)

\* What an updating call has left to do, and the table it is making.
LEMMA RestType ==
  ASSUME StepsInv, NEW t \in Links, pc[t] \in Writing \cup {"compare"}
  PROVE  /\ Offers(Rest(t), t) \in SUBSET (Byte \X Byte)
         /\ StoreDone(t) \in [Subnets -> RouteEntry]
<1> DEFINE e == frame[t].cmd.entries
           i == IF pc[t] = "compare" THEN frame[t].i ELSE frame[t].i + 1
<1>0. TypeOK /\ CallInv(t) /\ frame[t] \in Frame /\ dv \in [Subnets -> RouteEntry]
  BY ConstantFacts DEF StepsInv, LockInv, IInv, TypeOK
<1>1. frame[t].i \in Nat /\ frame[t].i >= 1 /\ e \in Seq(CommandEntry) /\ frame[t].cmd \in Command
  BY <1>0 DEF CallInv, Frame, Command, Writing
<1>2. i \in Nat /\ i >= 1 /\ Rest(t) = SubSeq(e, i, Len(e))
  BY <1>1 DEF Rest
<1>3. Offers(e, t) \subseteq Byte \X Byte
  BY <1>1, OffersType
<1> HIDE DEF i
<1>4. Offers(Rest(t), t) \subseteq Offers(e, t)
  <2>1. Offers(Rest(t), t) = {<<e[k].dest_subnet, NewCost(e[k].cost, t)>> : k \in i .. Len(e)}
    BY <1>1, <1>2, OffersFrom
  <2>2. \A k \in i .. Len(e) : k \in DOMAIN e
    BY <1>1, <1>2
  <2> QED
    BY <2>1, <2>2 DEF Offers
<1>5. StoreDone(t) \in [Subnets -> RouteEntry]
  <2>1. CASE pc[t] = "compare"
    BY <1>0, <2>1 DEF StoreDone
  <2>2. CASE pc[t] \in Writing
    <3>1. Offer(t) \in Byte
      BY <1>0, <1>1, <2>2, EntryType DEF CallInv
    <3>2. Route(Offer(t), t) \in RouteEntry
      BY <3>1, ConstantFacts DEF Route, RouteEntry
    <3>3. StoreDone(t) = [dv EXCEPT ![Entry(t).dest_subnet] = Route(Offer(t), t)]
      BY <2>2 DEF StoreDone, Writing
    <3> QED
      BY <1>0, <3>2, <3>3
  <2> QED
    BY <2>1, <2>2
<1> QED
  BY <1>3, <1>4, <1>5

\* The table the abstract router has: the call's merge completed.
LEMMA TargetIs ==
  ASSUME NEW t \in Links
  PROVE  /\ Updating = {} => TargetTable = dv
         /\ Updating' = {} => TargetTable' = dv'
         /\ Updating = {t} => TargetTable = Merged(StoreDone(t), Offers(Rest(t), t), t)
         /\ Updating' = {t} => TargetTable' = Merged(StoreDone(t)', Offers(Rest(t), t)', t)
<1>1. (CHOOSE u \in {t} : TRUE) = t
  OBVIOUS
<1>2. Updating = {} => TargetTable = dv
  BY DEF TargetTable
<1>3. Updating' = {} => TargetTable' = dv'
  BY DEF TargetTable
<1>4. ASSUME Updating = {t}
      PROVE  TargetTable = Merged(StoreDone(t), Offers(Rest(t), t), t)
  BY <1>1, <1>4 DEF TargetTable, Merged
<1>5. ASSUME Updating' = {t}
      PROVE  TargetTable' = Merged(StoreDone(t)', Offers(Rest(t), t)', t)
  BY <1>1, <1>5 DEF TargetTable, Merged
<1> QED
  BY <1>2, <1>3, <1>4, <1>5

\* The links the abstract router still has to serve.
LEMMA ToTellIs ==
  ASSUME NEW t \in Links
  PROVE  /\ (\A u \in AllLinks : u # t => pc[u] = "idle") =>
              StillToTell =
                IF pc[t] \in Writing \cup {"compare"} THEN IF WillBroadcast(t) THEN Links ELSE {}
                ELSE IF pc[t] = "scan" THEN Links
                ELSE IF pc[t] = "send" THEN frame[t].i .. ROUTER_LINK_COUNT - 1 ELSE {}
         /\ (\A u \in AllLinks : u # t => pc'[u] = "idle") =>
              StillToTell' =
                IF pc'[t] \in Writing \cup {"compare"} THEN IF WillBroadcast(t)' THEN Links ELSE {}
                ELSE IF pc'[t] = "scan" THEN Links
                ELSE IF pc'[t] = "send" THEN frame'[t].i .. ROUTER_LINK_COUNT - 1 ELSE {}
<1>0. Links \subseteq AllLinks
  BY ConstantFacts
<1>1. ASSUME \A u \in AllLinks : u # t => pc[u] = "idle"
      PROVE  StillToTell =
                IF pc[t] \in Writing \cup {"compare"} THEN IF WillBroadcast(t) THEN Links ELSE {}
                ELSE IF pc[t] = "scan" THEN Links
                ELSE IF pc[t] = "send" THEN frame[t].i .. ROUTER_LINK_COUNT - 1 ELSE {}
  <2>1. Updating = IF pc[t] \in Writing \cup {"compare"} THEN {t} ELSE {}
    BY <1>1, UpdatingIs
  <2>2. (\E u \in Links : pc[u] = "scan") <=> pc[t] = "scan"
    BY <1>0, <1>1
  <2>3. {u \in Links : pc[u] = "send"} = IF pc[t] = "send" THEN {t} ELSE {}
    BY <1>0, <1>1
  <2>4. UNION {frame[u].i .. ROUTER_LINK_COUNT - 1 : u \in {v \in Links : pc[v] = "send"}}
          = IF pc[t] = "send" THEN frame[t].i .. ROUTER_LINK_COUNT - 1 ELSE {}
    BY <2>3, Zenon
  <2> QED
    BY <2>1, <2>2, <2>4 DEF StillToTell, Writing
<1>2. ASSUME \A u \in AllLinks : u # t => pc'[u] = "idle"
      PROVE  StillToTell' =
                IF pc'[t] \in Writing \cup {"compare"} THEN IF WillBroadcast(t)' THEN Links ELSE {}
                ELSE IF pc'[t] = "scan" THEN Links
                ELSE IF pc'[t] = "send" THEN frame'[t].i .. ROUTER_LINK_COUNT - 1 ELSE {}
  <2>1. Updating' = IF pc'[t] \in Writing \cup {"compare"} THEN {t} ELSE {}
    BY <1>2, UpdatingIs
  <2>2. (\E u \in Links : pc'[u] = "scan") <=> pc'[t] = "scan"
    BY <1>0, <1>2
  <2>3. {u \in Links : pc'[u] = "send"} = IF pc'[t] = "send" THEN {t} ELSE {}
    BY <1>0, <1>2
  <2>4. UNION {frame'[u].i .. ROUTER_LINK_COUNT - 1 : u \in {v \in Links : pc'[v] = "send"}}
          = IF pc'[t] = "send" THEN frame'[t].i .. ROUTER_LINK_COUNT - 1 ELSE {}
    BY <2>3, Zenon
  <2> QED
    BY <2>1, <2>2, <2>4 DEF StillToTell, Writing
<1> QED
  BY <1>1, <1>2

\* A step that keeps all of it is a stutter of the abstract router.
LEMMA StutterMaps ==
  ASSUME TargetTable' = TargetTable, StillToTell' = StillToTell,
         UNCHANGED <<last_timestamp, view, up>>
  PROVE  UNCHANGED Abstract!vars
<1>1. [l \in Links |-> CostsIn(view[l])]' = [l \in Links |-> CostsIn(view[l])]
  OBVIOUS
<1>2. {l \in AllLinks : up[l]}' = {l \in AllLinks : up[l]}
  OBVIOUS
<1> QED
  BY <1>1, <1>2 DEF Abstract!vars

\* The call t is the one that updates the table, before and after a step.
LEMMA UpdatingBoth ==
  ASSUME StepsInv, NEW t \in AllLinks, Work(t)
  PROVE  /\ t \in Links
         /\ Updating = IF pc[t] \in Writing \cup {"compare"} THEN {t} ELSE {}
         /\ Updating' = IF pc'[t] \in Writing \cup {"compare"} THEN {t} ELSE {}
         /\ StillToTell =
              IF pc[t] \in Writing \cup {"compare"} THEN IF WillBroadcast(t) THEN Links ELSE {}
              ELSE IF pc[t] = "scan" THEN Links
              ELSE IF pc[t] = "send" THEN frame[t].i .. ROUTER_LINK_COUNT - 1 ELSE {}
         /\ StillToTell' =
              IF pc'[t] \in Writing \cup {"compare"} THEN IF WillBroadcast(t)' THEN Links ELSE {}
              ELSE IF pc'[t] = "scan" THEN Links
              ELSE IF pc'[t] = "send" THEN frame'[t].i .. ROUTER_LINK_COUNT - 1 ELSE {}
<1>1. LockInv
  BY DEF StepsInv
<1>2. t \in Links
  BY <1>1, WorkOnLink
<1>3. \A u \in AllLinks : u # t => pc[u] = "idle" /\ pc'[u] = "idle"
  BY <1>1, Lone
<1>4. /\ Updating = IF pc[t] \in Writing \cup {"compare"} THEN {t} ELSE {}
      /\ Updating' = IF pc'[t] \in Writing \cup {"compare"} THEN {t} ELSE {}
  BY <1>2, <1>3, UpdatingIs
<1>5. /\ (\A u \in AllLinks : u # t => pc[u] = "idle")
      /\ (\A u \in AllLinks : u # t => pc'[u] = "idle")
  BY <1>3
<1> QED
  BY <1>2, <1>4, <1>5, ToTellIs

\* The stores of one entry happen at once in the abstract table.
LEMMA StoreMaps ==
  ASSUME StepsInv, NEW t \in AllLinks, Store(t)
  PROVE  UNCHANGED Abstract!vars
<1>1. Work(t)
  BY DEF Store, Work
<1>2. /\ t \in Links
      /\ pc[t] \in Writing /\ pc'[t] \in Writing \cup {"compare"}
      /\ pc'[t] = "compare" => frame'[t].changed
      /\ StoreDone(t)' = StoreDone(t) /\ Rest(t)' = Rest(t)
      /\ UNCHANGED <<last_timestamp, view, up>>
  BY StoreEffect
<1>3. Updating = {t} /\ Updating' = {t}
  BY <1>1, <1>2, UpdatingBoth
<1>4. Offers(Rest(t), t)' = Offers(Rest(t), t)
  BY <1>2 DEF Offers
<1>5. TargetTable' = TargetTable
  BY <1>2, <1>3, <1>4, TargetIs
<1>6. WillBroadcast(t) /\ WillBroadcast(t)'
  BY <1>2 DEF WillBroadcast, Writing
<1>7. StillToTell = Links /\ StillToTell' = Links
  BY <1>1, <1>2, <1>6, UpdatingBoth
<1> QED
  BY <1>2, <1>5, <1>7, StutterMaps

\* An entry that is compared leaves the outcome of the merge as it was.
LEMMA CompareMaps ==
  ASSUME StepsInv, NEW t \in AllLinks, CompareEntry(t)
  PROVE  UNCHANGED Abstract!vars
<1> DEFINE d == Entry(t).dest_subnet
           c == Offer(t)
           all  == Offers(Rest(t), t)
           todo == Offers(Rest(t), t)'
<1>1. /\ Work(t) /\ dv \in [Subnets -> RouteEntry]
  BY DEF Work, StepsInv, LockInv, IInv, TypeOK
<1>2. /\ t \in Links /\ pc[t] = "compare" /\ StoreDone(t) = dv
      /\ d \in Byte /\ c \in Byte
      /\ all = todo \cup {<<d, c>>}
      /\ UNCHANGED <<last_timestamp, dv, view, up>>
      /\ \/ /\ d \in Subnets /\ Improves(t) /\ pc'[t] = "count"
            /\ StoreDone(t)' = [dv EXCEPT ![d] = Route(c, t)]
         \/ /\ d \in Subnets /\ ~Improves(t) /\ pc'[t] = "compare"
            /\ frame'[t].changed = frame[t].changed
            /\ StoreDone(t)' = dv
         \/ /\ d \notin Subnets /\ pc'[t] = "compare"
            /\ frame'[t].changed
            /\ StoreDone(t)' = dv
  BY CompareEffect
<1>3. Improves(t) <=> Beats(dv[d], c)
  BY DEF Improves, Beats
<1>4. Updating = {t} /\ Updating' = {t}
  BY <1>1, <1>2, UpdatingBoth DEF Writing
<1>5. all \in SUBSET (Byte \X Byte) /\ todo \in SUBSET (Byte \X Byte) /\ <<d, c>> \in all
  BY <1>2, RestType
<1>6. /\ TargetTable = Merged(dv, all, t)
      /\ TargetTable' = Merged(StoreDone(t)', todo, t)
  BY <1>2, <1>4, TargetIs
<1>7. /\ StillToTell = IF WillBroadcast(t) THEN Links ELSE {}
      /\ StillToTell' = IF WillBroadcast(t)' THEN Links ELSE {}
  BY <1>1, <1>2, UpdatingBoth DEF Writing
<1>8. /\ WillBroadcast(t) <=> frame[t].changed \/ TargetTable # dv
                                \/ \E o \in all : o[1] \notin Subnets
      /\ WillBroadcast(t)' <=> frame'[t].changed \/ TargetTable' # dv \/ pc'[t] # "compare"
                                \/ \E o \in todo : o[1] \notin Subnets
  BY <1>2 DEF WillBroadcast
<1> HIDE DEF d, c, all, todo
<1>9. CASE /\ d \in Subnets /\ Beats(dv[d], c) /\ pc'[t] = "count"
           /\ StoreDone(t)' = [dv EXCEPT ![d] = Route(c, t)]
  <2>1. TargetTable' = TargetTable
    <3> DEFINE mid == StoreDone(t)'
    <3>1. /\ mid \in [Subnets -> RouteEntry]
          /\ mid[d] = Route(c, t) /\ \A s \in Subnets : s # d => mid[s] = dv[s]
      <4>1. Route(c, t) \in RouteEntry
        BY <1>2, ConstantFacts DEF Route, RouteEntry
      <4> QED
        BY <1>1, <1>9, <4>1
    <3>2. \A s \in Subnets, b \in Byte :
            <<s, b>> \in all <=> <<s, b>> \in todo \/ (s = d /\ b = c)
      BY <1>2
    <3> HIDE DEF mid
    <3>3. t \in Links /\ d \in Subnets /\ c \in Byte /\ Beats(dv[d], c)
      BY <1>2, <1>9
    <3>4. Merged(dv, all, t) = Merged(mid, todo, t)
      BY <1>1, <1>5, <3>1, <3>2, <3>3, MergeStored
    <3> QED
      BY <1>6, <3>4 DEF mid
  <2>2. TargetTable # dv
    BY <1>1, <1>2, <1>5, <1>6, <1>9, MergeChanges
  <2>3. WillBroadcast(t) /\ WillBroadcast(t)'
    BY <1>8, <1>9, <2>2
  <2> QED
    BY <1>2, <1>7, <2>1, <2>3, StutterMaps
<1>10. CASE /\ d \in Subnets /\ ~Beats(dv[d], c) /\ pc'[t] = "compare"
            /\ frame'[t].changed = frame[t].changed /\ StoreDone(t)' = dv
  <2>1. TargetTable' = TargetTable
    BY <1>1, <1>2, <1>5, <1>6, <1>10, MergePassed
  <2>2. (\E o \in all : o[1] \notin Subnets) <=> (\E o \in todo : o[1] \notin Subnets)
    BY <1>2, <1>10
  <2>3. WillBroadcast(t) <=> WillBroadcast(t)'
    BY <1>8, <1>10, <2>1, <2>2
  <2> QED
    BY <1>2, <1>7, <2>1, <2>3, StutterMaps
<1>11. CASE /\ d \notin Subnets /\ pc'[t] = "compare"
            /\ frame'[t].changed /\ StoreDone(t)' = dv
  <2>1. TargetTable' = TargetTable
    BY <1>1, <1>2, <1>5, <1>6, <1>11, MergePassed
  <2>2. \E o \in all : o[1] \notin Subnets
    <3>1. <<d, c>> \in all /\ <<d, c>>[1] \notin Subnets
      BY <1>5, <1>11
    <3> QED
      BY <3>1
  <2>3. WillBroadcast(t) /\ WillBroadcast(t)'
    BY <1>8, <1>11, <2>2
  <2> QED
    BY <1>2, <1>7, <2>1, <2>3, StutterMaps
<1> QED
  BY <1>2, <1>3, <1>9, <1>10, <1>11

\* The loop ends with the merge done, and a changed table still to tell.
LEMMA EndMaps ==
  ASSUME StepsInv, NEW t \in AllLinks, EndUpdate(t)
  PROVE  UNCHANGED Abstract!vars
<1>1. /\ Work(t) /\ dv \in [Subnets -> RouteEntry]
  BY DEF Work, StepsInv, LockInv, IInv, TypeOK
<1>2. /\ t \in Links /\ pc[t] = "compare" /\ StoreDone(t) = dv
      /\ Offers(Rest(t), t) = {}
      /\ IF frame[t].changed THEN pc'[t] = "scan" ELSE pc'[t] = "idle"
      /\ UNCHANGED <<last_timestamp, dv, view, up>>
  BY EndEffect
<1>3. Updating = {t} /\ Updating' = {}
  BY <1>1, <1>2, UpdatingBoth DEF Writing
<1>4. TargetTable = dv /\ TargetTable' = dv
  BY <1>1, <1>2, <1>3, TargetIs, MergeNothing
<1>5. WillBroadcast(t) <=> frame[t].changed
  BY <1>2, <1>4 DEF WillBroadcast
<1>6. StillToTell' = StillToTell
  BY <1>1, <1>2, <1>5, UpdatingBoth DEF Writing
<1> QED
  BY <1>2, <1>4, <1>6, StutterMaps

\* The instance has its own copy of the vocabulary: it says the same.
LEMMA SameWords ==
  /\ Abstract!Links = Links /\ Abstract!AllLinks = AllLinks /\ Abstract!Subnets = Subnets
  /\ \A e, l : Abstract!Offers(e, l) = Offers(e, l)
  /\ \A tbl : Abstract!Costs(tbl) = Costs(tbl)
  /\ Abstract!InitialTable = InitialTable
<1>1. Abstract!Links = Links /\ Abstract!AllLinks = AllLinks /\ Abstract!Subnets = Subnets
  BY DEF Abstract!Links, Links, Abstract!AllLinks, AllLinks, Abstract!Subnets, Subnets,
         Abstract!APP_LINK, APP_LINK
<1>2. ASSUME NEW e, NEW l
      PROVE  Abstract!Offers(e, l) = Offers(e, l)
  BY <1>1 DEF Abstract!Offers, Offers, Abstract!NewCost, NewCost, Abstract!LinkWeight, LinkWeight
<1>3. ASSUME NEW tbl
      PROVE  Abstract!Costs(tbl) = Costs(tbl)
  BY <1>1 DEF Abstract!Costs, Costs
<1>4. ASSUME NEW s
      PROVE  Abstract!InitialEntry(s) = InitialEntry(s)
  BY <1>1 DEF Abstract!InitialEntry, InitialEntry, Abstract!MY_SUBNET, MY_SUBNET,
              Abstract!SUBNET, SUBNET, Abstract!Route, Route,
              Abstract!NO_NEXT_HOP_LINK, NO_NEXT_HOP_LINK
<1>5. Abstract!InitialTable = InitialTable
  BY <1>1, <1>4 DEF Abstract!InitialTable, InitialTable
<1> QED
  BY <1>1, <1>2, <1>3, <1>5

\* Storing the timestamp accepts the command as a whole.
LEMMA StampMaps ==
  ASSUME StepsInv, NEW t \in AllLinks, StoreTimestamp(t)
  PROVE  \E c \in Commands : Abstract!Accept(t, c)
<1> DEFINE c == frame[t].cmd
           o == Offers(c.entries, t)
<1>1. /\ Work(t) /\ dv \in [Subnets -> RouteEntry]
  BY DEF Work, StepsInv, LockInv, IInv, TypeOK
<1>2. /\ t \in Links /\ pc[t] = "stamp" /\ pc'[t] = "compare"
      /\ frame' = frame /\ c \in Commands /\ ~frame[t].changed
      /\ c.timestamp > last_timestamp /\ last_timestamp' = c.timestamp
      /\ StoreDone(t)' = dv /\ Offers(Rest(t), t)' = o
      /\ UNCHANGED <<dv, view, up>>
  BY StampEffect
<1>3. /\ Updating = {} /\ Updating' = {t} /\ StillToTell = {}
      /\ StillToTell' = IF WillBroadcast(t)' THEN Links ELSE {}
  BY <1>1, <1>2, UpdatingBoth DEF Writing
<1>4. TargetTable = dv /\ TargetTable' = Merged(dv, o, t)
  BY <1>2, <1>3, TargetIs
<1>5. WillBroadcast(t)' <=> TargetTable' # TargetTable \/ \E p \in o : p[1] \notin Subnets
  BY <1>2, <1>4 DEF WillBroadcast
<1>6. Abstract!Merge(TargetTable, Abstract!Offers(c.entries, t), t) = TargetTable'
  <2>1. Abstract!Offers(c.entries, t) = o
    BY SameWords
  <2> HIDE DEF o, c
  <2>2. Abstract!Merge(dv, o, t) = Merged(dv, o, t)
    BY MergesAgree
  <2> QED
    BY <1>4, <2>1, <2>2
<1>7. StillToTell' = IF \/ TargetTable' # TargetTable
                        \/ \E p \in Abstract!Offers(c.entries, t) : p[1] \notin Abstract!Subnets
                       THEN Abstract!Links ELSE {}
  BY <1>3, <1>5, SameWords
<1>8. /\ [l \in Links |-> CostsIn(view[l])]' = [l \in Links |-> CostsIn(view[l])]
      /\ {l \in AllLinks : up[l]}' = {l \in AllLinks : up[l]}
  BY <1>2
<1>9. Abstract!Accept(t, c)
  BY <1>2, <1>3, <1>6, <1>7, <1>8 DEF Abstract!Accept
<1> QED
  BY <1>2, <1>9

\* The checks before the timestamp, and the copying, are silent.
LEMMA QuietMaps ==
  ASSUME StepsInv, NEW t \in AllLinks,
         DropOutdated(t) \/ PassTimestamp(t) \/ ScanEntry(t)
  PROVE  UNCHANGED Abstract!vars
<1>1. /\ Work(t) /\ LockInv /\ pc \in [AllLinks -> Locations] /\ frame \in [AllLinks -> Frame]
  BY DEF Work, StepsInv, LockInv, IInv, TypeOK
<1>2. /\ t \in Links
      /\ pc[t] \in {"check", "scan", "send"} /\ pc'[t] \in {"idle", "stamp", "scan", "send"}
      /\ UNCHANGED <<last_timestamp, dv, up>>
  BY OtherEffect
<1>3. Updating = {} /\ Updating' = {}
  BY <1>1, <1>2, UpdatingBoth DEF Writing
<1>4. TargetTable' = TargetTable
  BY <1>2, <1>3, TargetIs
<1>5. view' = view
  BY DEF DropOutdated, PassTimestamp, ScanEntry
<1>6. CASE DropOutdated(t) \/ PassTimestamp(t)
  <2>1. pc[t] = "check" /\ pc'[t] \in {"idle", "stamp"}
    BY <1>1, <1>6 DEF DropOutdated, PassTimestamp, At, Return, Goto
  <2>2. StillToTell = {} /\ StillToTell' = {}
    BY <1>1, <2>1, UpdatingBoth DEF Writing
  <2> QED
    BY <1>2, <1>4, <1>5, <2>2, StutterMaps
<1>7. CASE ScanEntry(t)
  <2>1. pc[t] = "scan" /\ (pc'[t] = "scan" \/ (pc'[t] = "send" /\ frame'[t].i = 0))
    <3>1. frame[t] \in Frame /\ pc[t] = "scan"
      BY <1>1, <1>7 DEF ScanEntry, At
    <3>2. CASE UNCHANGED pc
      BY <3>1, <3>2
    <3>3. CASE frame' = [frame EXCEPT ![t].i = 0] /\ Goto(t, "send")
      BY <1>1, <3>1, <3>3 DEF Goto, Frame
    <3> QED
      BY <1>7, <3>2, <3>3 DEF ScanEntry
  <2>2. Links = 0 .. ROUTER_LINK_COUNT - 1
    BY DEF Links
  <2>3. StillToTell = Links /\ StillToTell' = Links
    BY <1>1, <2>1, <2>2, UpdatingBoth DEF Writing
  <2> QED
    BY <1>2, <1>4, <1>5, <2>3, StutterMaps
<1> QED
  BY <1>6, <1>7

\* A call that sends stands at the least link still to be served; after its
\* round that link is served, and after the last round all are.
LEMMA RoundEffect ==
  ASSUME StepsInv, NEW t \in AllLinks, SendTable(t) \/ SendBroken(t)
  PROVE  LET i == frame[t].i
         IN  /\ t \in Links /\ pc[t] = "send" /\ i \in Links
             /\ StillToTell # {} /\ i = Abstract!Least(StillToTell)
             /\ TargetTable = dv /\ TargetTable' = dv
             /\ NextLink(t) => StillToTell' = StillToTell \ {i}
             /\ Return(t) => StillToTell' = {}
<1> DEFINE i == frame[t].i
           n == ROUTER_LINK_COUNT - 1
<1>1. /\ Work(t) /\ LockInv /\ pc \in [AllLinks -> Locations] /\ frame \in [AllLinks -> Frame]
      /\ CallInv(t)
  BY DEF Work, StepsInv, LockInv, IInv, TypeOK
<1>2. /\ t \in Links /\ pc[t] = "send" /\ pc'[t] \in {"idle", "stamp", "scan", "send"}
      /\ UNCHANGED dv
  BY OtherEffect DEF SendTable, SendBroken, At
<1>3. frame[t] \in Frame /\ i \in Links /\ i \in Nat /\ i <= n /\ n \in Nat /\ Links = 0 .. n
  BY <1>1, <1>2, SizeAssumption DEF CallInv, Links, Frame
<1>4. Updating = {} /\ Updating' = {} /\ StillToTell = i .. n
  BY <1>1, <1>2, UpdatingBoth DEF Writing
<1>5. TargetTable = dv /\ TargetTable' = dv
  BY <1>2, <1>4, TargetIs
<1>6. i .. n # {} /\ i = Abstract!Least(i .. n)
  <2>1. i .. n \in SUBSET Nat /\ i \in i .. n /\ \A y \in i .. n : i <= y
    BY <1>3
  <2> QED
    BY <2>1, LeastIs
<1>7. ASSUME NextLink(t)
      PROVE  StillToTell' = StillToTell \ {i}
  <2>1. CASE i + 1 < ROUTER_LINK_COUNT
    <3>1. frame' = [frame EXCEPT ![t].i = @ + 1] /\ pc' = pc
      BY <1>7, <2>1 DEF NextLink
    <3>2. pc'[t] = "send" /\ frame'[t].i = i + 1
      BY <1>1, <1>2, <1>3, <3>1 DEF Frame
    <3>3. StillToTell' = i + 1 .. n
      BY <1>1, <3>2, UpdatingBoth DEF Writing
    <3>4. i + 1 .. n = (i .. n) \ {i}
      BY <1>3
    <3> QED
      BY <1>4, <3>3, <3>4
  <2>2. CASE ~(i + 1 < ROUTER_LINK_COUNT)
    <3>1. Return(t)
      BY <1>7, <2>2 DEF NextLink
    <3>2. pc'[t] = "idle"
      BY <1>1, <3>1 DEF Return, Goto
    <3>3. StillToTell' = {}
      BY <1>1, <3>2, UpdatingBoth DEF Writing
    <3>4. (i .. n) \ {i} = {}
      BY <1>3, <2>2, SizeAssumption
    <3> QED
      BY <1>4, <3>3, <3>4
  <2> QED
    BY <2>1, <2>2
<1>8. ASSUME Return(t)
      PROVE  StillToTell' = {}
  <2>1. pc'[t] = "idle"
    BY <1>1, <1>8 DEF Return, Goto
  <2> QED
    BY <1>1, <2>1, UpdatingBoth DEF Writing
<1> QED
  BY <1>2, <1>3, <1>4, <1>5, <1>6, <1>7, <1>8

\* Sending the copied table on a link advertises the abstract table on it.
LEMMA SendMaps ==
  ASSUME InformedInv, NEW t \in AllLinks, SendTable(t)
  PROVE  \E l \in Links : Abstract!Advertise(l)
<1> DEFINE i == frame[t].i
           told == [l \in Links |-> CostsIn(view[l])]
<1>1. /\ StepsInv /\ CopyInv(t) /\ view \in [Links -> Seq(CommandEntry)]
  BY DEF InformedInv, StepsInv, LockInv, IInv, TypeOK
<1>2. /\ pc[t] = "send" /\ i \in Links /\ i \in AllLinks
      /\ StillToTell # {} /\ i = Abstract!Least(StillToTell)
      /\ TargetTable = dv /\ TargetTable' = dv
      /\ StillToTell' = StillToTell \ {i}
  BY <1>1, RoundEffect, ConstantFacts DEF SendTable
<1>3. /\ up[i] /\ view' = [view EXCEPT ![i] = frame[t].out]
      /\ UNCHANGED <<last_timestamp, up>>
  BY DEF SendTable, table, net
<1>4. CostsIn(frame[t].out) = Costs(dv)
  BY <1>1, <1>2 DEF CopyInv
<1>5. told' = [told EXCEPT ![i] = Abstract!Costs(TargetTable)]
  <2>1. Abstract!Costs(TargetTable) = Costs(dv)
    BY <1>2, SameWords
  <2>2. ASSUME NEW l \in Links
        PROVE  CostsIn(view'[l]) = IF l = i THEN Costs(dv) ELSE CostsIn(view[l])
    BY <1>1, <1>2, <1>3, <1>4
  <2>3. told' = [l \in Links |-> CostsIn(view'[l])]
    OBVIOUS
  <2>4. [told EXCEPT ![i] = Costs(dv)] = [l \in Links |-> IF l = i THEN Costs(dv) ELSE CostsIn(view[l])]
    BY <1>2
  <2> QED
    BY <2>1, <2>2, <2>3, <2>4
<1>6. /\ i \in {l \in AllLinks : up[l]}
      /\ {l \in AllLinks : up[l]}' = {l \in AllLinks : up[l]}
  BY <1>2, <1>3
<1>7. Abstract!Advertise(i)
  BY <1>2, <1>3, <1>5, <1>6 DEF Abstract!Advertise
<1> QED
  BY <1>2, <1>7

\* A broken link is skipped, ends the round, or ends the process.
LEMMA BrokenMaps ==
  ASSUME StepsInv, NEW t \in AllLinks, SendBroken(t)
  PROVE  (\E l \in Links : Abstract!Skip(l)) \/ UNCHANGED Abstract!vars
<1> DEFINE i == frame[t].i
<1>1. /\ pc[t] = "send" /\ i \in Links
      /\ StillToTell # {} /\ i = Abstract!Least(StillToTell)
      /\ TargetTable = dv /\ TargetTable' = dv
      /\ NextLink(t) => StillToTell' = StillToTell \ {i}
      /\ Return(t) => StillToTell' = {}
  BY RoundEffect
<1>2. ~up[i] /\ UNCHANGED <<last_timestamp, dv, view, up>>
  BY DEF SendBroken, table
<1>3. /\ i \notin {l \in AllLinks : up[l]}
      /\ {l \in AllLinks : up[l]}' = {l \in AllLinks : up[l]}
      /\ [l \in Links |-> CostsIn(view[l])]' = [l \in Links |-> CostsIn(view[l])]
  BY <1>2
<1>4. CASE NextLink(t) \/ Return(t)
  <2>1. StillToTell' \in {StillToTell \ {i}, {}}
    BY <1>1, <1>4
  <2>2. Abstract!Skip(i)
    BY <1>1, <1>2, <1>3, <2>1 DEF Abstract!Skip
  <2> QED
    BY <1>1, <2>2
<1>5. CASE UNCHANGED stack
  <2>1. pc' = pc /\ frame' = frame
    BY <1>5 DEF stack
  <2>2. StillToTell' = StillToTell
    <3>1. Work(t)
      BY DEF Work
    <3> QED
      BY <1>1, <2>1, <3>1, UpdatingBoth DEF Writing
  <2> QED
    BY <1>1, <1>2, <2>2, StutterMaps
<1> QED
  BY <1>4, <1>5 DEF SendBroken

\* A packet that arrives changes nothing the abstract router has.
LEMMA ReceiveMaps ==
  ASSUME StepsInv, NEW t \in AllLinks, AllIdle, Receive(t)
  PROVE  UNCHANGED Abstract!vars
<1>1. LockInv /\ \A u \in AllLinks : u # t => pc[u] = "idle" /\ pc'[u] = "idle"
  BY Lone DEF StepsInv
<1>2. /\ UNCHANGED <<last_timestamp, dv, view, up>>
      /\ pc[t] = "idle" /\ pc'[t] \in {"idle", "check"}
  BY <1>1, ReceiveEffect DEF table, net, stack, AllIdle
<1>3. \A u \in AllLinks : pc[u] = "idle" /\ pc'[u] \in {"idle", "check"}
  BY <1>1, <1>2
<1>4. Links \subseteq AllLinks
  BY ConstantFacts
<1>5. Updating = {} /\ Updating' = {}
  BY <1>3, <1>4 DEF Updating
<1>6. TargetTable' = TargetTable
  BY <1>2, <1>5 DEF TargetTable
<1>7. StillToTell = {} /\ StillToTell' = {}
  <2>1. /\ {u \in Links : pc[u] = "send"} = {} /\ {u \in Links : pc'[u] = "send"} = {}
        /\ ~\E u \in Links : pc[u] = "scan" \/ pc'[u] = "scan"
    BY <1>3, <1>4
  <2> QED
    BY <1>5, <2>1 DEF StillToTell
<1> QED
  BY <1>2, <1>6, <1>7, StutterMaps

\* A connection breaks, or the process ends.
LEMMA FailMaps ==
  ASSUME StepsInv, NEW t \in AllLinks, Fail(t)
  PROVE  Abstract!Break(t) \/ UNCHANGED Abstract!vars
<1>1. UNCHANGED <<table, stack, view>> /\ up \in [AllLinks -> BOOLEAN]
  BY FailEffect DEF StepsInv, LockInv, IInv, TypeOK
<1>2. UNCHANGED <<last_timestamp, dv, pc, frame, view>>
  BY <1>1 DEF table, stack
<1>3. Updating' = Updating /\ \A u \in Links : StoreDone(u)' = StoreDone(u) /\ Rest(u)' = Rest(u)
  BY <1>2 DEF Updating, StoreDone, Rest, Entry, Offer
<1>4. TargetTable' = TargetTable
  BY <1>2 DEF TargetTable, Updating, StoreDone, Rest, Entry, Offer, Spare!Merge, Spare!Least,
              Spare!Subnets, Spare!Route
<1>5. \A u \in Links : WillBroadcast(u)' = WillBroadcast(u)
  BY <1>2, <1>4 DEF WillBroadcast, Rest
<1>6. StillToTell' = StillToTell
  BY <1>2, <1>3, <1>5 DEF StillToTell, Updating
<1>7. CASE LinkBreak(t)
  <2>1. {l \in AllLinks : up[l]}' = {l \in AllLinks : up[l]} \ {t}
    BY <1>1, <1>7 DEF LinkBreak
  <2>2. t \in Breakable \cap {l \in AllLinks : up[l]}
    BY <1>7 DEF LinkBreak
  <2>3. [l \in Links |-> CostsIn(view[l])]' = [l \in Links |-> CostsIn(view[l])]
    BY <1>2
  <2> QED
    BY <1>2, <1>4, <1>6, <2>1, <2>2, <2>3 DEF Abstract!Break
<1>8. CASE ReadBroken(t)
  BY <1>2, <1>4, <1>6, <1>8, StutterMaps DEF ReadBroken
<1> QED
  BY <1>7, <1>8 DEF Fail

\* Every step is a step of the abstract router, or nothing to it.
LEMMA StepMaps ==
  ASSUME InformedInv, [LockStepNext]_vars
  PROVE  [Abstract!Next]_Abstract!vars
<1>0. StepsInv
  BY DEF InformedInv
<1>1. ASSUME NEW t \in AllLinks, Work(t)
      PROVE  [Abstract!Next]_Abstract!vars
  <2>1. t \in Links
    BY <1>0, <1>1, WorkOnLink DEF StepsInv
  <2>2. CASE Store(t)
    BY <1>0, <2>2, StoreMaps
  <2>3. CASE CompareEntry(t)
    BY <1>0, <2>3, CompareMaps
  <2>4. CASE EndUpdate(t)
    BY <1>0, <2>4, EndMaps
  <2>5. CASE StoreTimestamp(t)
    BY <1>0, <2>1, <2>5, StampMaps, SameWords DEF Abstract!Next
  <2>6. CASE DropOutdated(t) \/ PassTimestamp(t) \/ ScanEntry(t)
    BY <1>0, <2>6, QuietMaps
  <2>7. CASE SendTable(t)
    BY <2>7, SendMaps, SameWords DEF Abstract!Next
  <2>8. CASE SendBroken(t)
    BY <1>0, <2>8, BrokenMaps, SameWords DEF Abstract!Next
  <2> QED
    BY <1>1, <2>2, <2>3, <2>4, <2>5, <2>6, <2>7, <2>8 DEF Work, Store
<1>2. ASSUME NEW t \in AllLinks, AllIdle, Receive(t)
      PROVE  [Abstract!Next]_Abstract!vars
  BY <1>0, <1>2, ReceiveMaps
<1>3. ASSUME NEW t \in AllLinks, Fail(t)
      PROVE  [Abstract!Next]_Abstract!vars
  BY <1>0, <1>3, FailMaps, SameWords DEF Abstract!Next
<1>4. CASE UNCHANGED vars
  <2>1. UNCHANGED <<last_timestamp, dv, pc, frame, view, up>>
    BY <1>4 DEF vars, table, stack, net
  <2>2. TargetTable' = TargetTable
    BY <2>1 DEF TargetTable, Updating, StoreDone, Rest, Entry, Offer, Spare!Merge, Spare!Least,
                Spare!Subnets, Spare!Route
  <2>3. StillToTell' = StillToTell
    BY <2>1, <2>2 DEF StillToTell, Updating, WillBroadcast, Rest
  <2> QED
    BY <2>1, <2>2, <2>3, StutterMaps
<1> QED
  BY <1>1, <1>2, <1>3, <1>4 DEF LockStepNext

\* main() starts with the abstract router's table, nobody told of it.
LEMMA InitMaps == Init => Abstract!Init
<1> SUFFICES ASSUME Init PROVE Abstract!Init
  OBVIOUS
<1>1. Updating = {} /\ {u \in Links : pc[u] = "send"} = {} /\ ~\E u \in Links : pc[u] = "scan"
  BY ConstantFacts DEF Init, Updating
<1>2. TargetTable = Abstract!InitialTable
  BY <1>1, SameWords DEF TargetTable, Init
<1>3. StillToTell = {}
  BY <1>1 DEF StillToTell
<1>4. [l \in Links |-> CostsIn(view[l])] = [l \in Abstract!Links |-> {}]
  <2>1. \A l \in Links : CostsIn(view[l]) = {}
    BY DEF Init, CostsIn
  <2> QED
    BY <2>1, SameWords
<1>5. {l \in AllLinks : up[l]} = Abstract!AllLinks
  BY SameWords DEF Init
<1>6. last_timestamp = 0
  BY DEF Init
<1> QED
  BY <1>2, <1>3, <1>4, <1>5, <1>6 DEF Abstract!Init

\* Fed one packet at a time, the router is the abstract table of RouteTable:
\* a command takes effect as a whole, and a changed table goes out link by
\* link before the next command is accepted.
THEOREM RouterImplementsTable == LockStepSpec => ImplementsRouteTable
<1>1. InformedInv /\ [LockStepNext]_vars => InformedInv'
  BY StepsStep, InformedStep DEF InformedInv
<1>2. InformedInv /\ [LockStepNext]_vars => [Abstract!Next]_Abstract!vars
  BY StepMaps
<1> QED
  BY <1>1, <1>2, InitInformed, InitMaps, PTL DEF LockStepSpec, ImplementsRouteTable, Abstract!Spec
=============================================================================
