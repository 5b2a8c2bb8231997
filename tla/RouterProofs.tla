---------------------------- MODULE RouterProofs ----------------------------
(***************************************************************************)
(* The router's invariants for every number of subnets and links, every    *)
(* link table and every set of commands and data packets, with its threads *)
(* interleaved in any way (Spec), and the monotone clock of the router fed *)
(* one packet at a time (LockStepSpec).                                    *)
(***************************************************************************)
EXTENDS RouterProps, TLAPS

Writing == {"count", "bump", "valid", "cost", "hop"}

\* What holds of a running call: only netsim links have one, its loop
\* indices are in range, the entry it stores was offered and is not for the
\* router's own subnet, and it packs at most one entry per subnet.
CallInv(t) ==
  /\ pc[t] # "idle" => t \in Links
  /\ pc[t] \notin {"scan", "send"} => frame[t].i >= 1
  /\ pc[t] \in Writing \cup {"compare"} =>
       Offers(frame[t].cmd.entries, t) \subseteq offered[t]
  /\ pc[t] \in Writing =>
       /\ frame[t].i <= Len(frame[t].cmd.entries)
       /\ Entry(t).dest_subnet \in Subnets
       /\ Entry(t).dest_subnet # MY_SUBNET
  /\ pc[t] = "scan" =>
       frame[t].i <= SUBNET_ADDRESS_MAX /\ Len(frame[t].out) <= frame[t].i
  /\ pc[t] = "send" =>
       frame[t].i \in Links /\ Len(frame[t].out) <= SUBNET_ADDRESS_MAX
  /\ pc[t] \notin {"scan", "send"} => frame[t].out = <<>>

\* A route is as it was at the start, or its next hop offered the subnet,
\* or a thread that is about to store its own link is still at work on it.
RouteInv(s) ==
  /\ s = MY_SUBNET => dv[s] = Route(0, NO_NEXT_HOP_LINK)
  /\ s # MY_SUBNET => dv[s].next_hop_link \in Links
  /\ \/ dv[s] = InitialEntry(s)
     \/ \E c \in Byte : <<s, c>> \in offered[dv[s].next_hop_link]
     \/ \E t \in Links : pc[t] \in {"cost", "hop"} /\ Entry(t).dest_subnet = s

IInv ==
  /\ TypeOK
  /\ \A t \in AllLinks : CallInv(t)
  /\ \A s \in Subnets : RouteInv(s)
  /\ OnlyOwnSubnetIsLost

-----------------------------------------------------------------------------
(* The constants. *)

\* What the assumptions on the constants say of the derived ones.
LEMMA ConstantFacts ==
  /\ MY_SUBNET \in Subnets
  /\ Subnets \subseteq Byte
  /\ Links \subseteq Byte /\ Links \subseteq AllLinks /\ 0 \in Links
  /\ NO_NEXT_HOP_LINK \in Byte \ Links
  /\ ROUTER_LINK_COUNT + 1 \in Byte
<1>1. ROUTER_ADDR \in 0 .. 4 * SUBNET_ADDRESS_MAX - 1
  BY AddressAssumption DEF Addresses
<1>2. MY_SUBNET \in Subnets
  BY <1>1, SizeAssumption DEF MY_SUBNET, SUBNET, Subnets
<1> QED
  BY <1>2, SizeAssumption
     DEF Subnets, Byte, Links, AllLinks, APP_LINK, NO_NEXT_HOP_LINK

\* uint8_t arithmetic.
LEMMA AddByte ==
  ASSUME NEW x \in Byte, NEW y \in Byte
  PROVE  (x + y) % 256 \in Byte
BY DEF Byte

\* router_init() fills the table with well-formed entries.
LEMMA InitialEntryType ==
  ASSUME NEW s \in Subnets
  PROVE  /\ InitialEntry(s) \in RouteEntry
         /\ s = MY_SUBNET => InitialEntry(s) = Route(0, NO_NEXT_HOP_LINK)
         /\ s # MY_SUBNET => InitialEntry(s).next_hop_link \in Links
<1> DEFINE k == CHOOSE l \in Links : NEIGHBOUR_SUBNETS[l] = s
<1>1. CASE s = MY_SUBNET
  BY <1>1, ConstantFacts DEF InitialEntry, Route, RouteEntry, Byte
<1>2. CASE s # MY_SUBNET /\ \E l \in Links : NEIGHBOUR_SUBNETS[l] = s
  <2>1. k \in Links
    BY <1>2
  <2>2. LINK_WEIGHTS[k] \in Byte
    BY <2>1, LinkAssumption
  <2>3. InitialEntry(s) = Route(LINK_WEIGHTS[k], k)
    BY <1>2 DEF InitialEntry
  <2> QED
    BY <1>2, <2>1, <2>2, <2>3, ConstantFacts DEF Route, RouteEntry
<1>3. CASE s # MY_SUBNET /\ ~ \E l \in Links : NEIGHBOUR_SUBNETS[l] = s
  BY <1>3, ConstantFacts DEF InitialEntry, RouteEntry, Byte
<1> QED
  BY <1>1, <1>2, <1>3

\* An entry of a command is two bytes, and what it offers is one of the
\* command's offers.
LEMMA EntryType ==
  ASSUME TypeOK, NEW t \in Links,
         frame[t].i >= 1, frame[t].i <= Len(frame[t].cmd.entries)
  PROVE  /\ Entry(t).dest_subnet \in Byte
         /\ Entry(t).cost \in Byte
         /\ Offer(t) \in Byte
         /\ <<Entry(t).dest_subnet, Offer(t)>> \in Offers(frame[t].cmd.entries, t)
<1>1. frame[t] \in Frame
  BY ConstantFacts DEF TypeOK
<1>2. /\ frame[t].cmd.entries \in Seq(CommandEntry)
      /\ frame[t].i \in DOMAIN frame[t].cmd.entries
  BY <1>1 DEF Frame, Command
<1>3. Entry(t) \in CommandEntry
  BY <1>2 DEF Entry
<1>4. LinkWeight(t) \in Byte
  BY LinkAssumption DEF LinkWeight
<1>5. Entry(t).dest_subnet \in Byte /\ Entry(t).cost \in Byte
  BY <1>3 DEF CommandEntry
<1>6. Offer(t) \in Byte
  BY <1>4, <1>5, AddByte DEF Offer, NewCost
<1>7. <<Entry(t).dest_subnet, Offer(t)>> \in Offers(frame[t].cmd.entries, t)
  BY <1>2 DEF Offers, Offer, Entry
<1> QED
  BY <1>5, <1>6, <1>7

-----------------------------------------------------------------------------
(* Type correctness: each step keeps TypeOK, given CallInv. *)

\* The locals of a call that is not running.
LEMMA EmptyFrameType == EmptyFrame \in Frame
<1>1. <<>> \in Seq(CommandEntry)
  OBVIOUS
<1>3. 0 \in Timestamp /\ 0 \in Byte
  BY SizeAssumption DEF Timestamp, Byte
<1>4. [timestamp |-> 0, entries |-> <<>>] \in Command
  BY <1>1, <1>3 DEF Command
<1> QED
  BY <1>1, <1>3, <1>4 DEF EmptyFrame, Frame

\* The strengthened invariant holds when main() has run router_init().
THEOREM InitInv == Init => IInv
<1> SUFFICES ASSUME Init PROVE IInv
  OBVIOUS
<1>1. TypeOK
  <2>1. dv \in [Subnets -> RouteEntry]
    BY InitialEntryType DEF Init, InitialTable
  <2>2. frame \in [AllLinks -> Frame]
    BY EmptyFrameType DEF Init
  <2>3. view \in [Links -> Seq(CommandEntry)]
    BY DEF Init
  <2>4. dv_entry_count \in Byte
    BY ConstantFacts DEF Init
  <2> QED
    BY <2>1, <2>2, <2>3, <2>4, SizeAssumption
       DEF Init, TypeOK, Timestamp, Locations, Event
<1>2. ASSUME NEW t \in AllLinks PROVE CallInv(t)
  BY DEF Init, CallInv, Writing, EmptyFrame
<1>3. ASSUME NEW s \in Subnets PROVE RouteInv(s)
  BY InitialEntryType DEF Init, InitialTable, RouteInv
<1>4. OnlyOwnSubnetIsLost
  BY DEF Init, OnlyOwnSubnetIsLost, NoEvent
<1> QED
  BY <1>1, <1>2, <1>3, <1>4 DEF IInv

\* The offers of a command are pairs of bytes: its costs wrap.
LEMMA OffersType ==
  ASSUME NEW c \in Command, NEW t \in Links
  PROVE  Offers(c.entries, t) \subseteq Byte \X Byte
<1>1. LinkWeight(t) \in Byte
  BY LinkAssumption DEF LinkWeight
<1>2. ASSUME NEW k \in DOMAIN c.entries
      PROVE  <<c.entries[k].dest_subnet, NewCost(c.entries[k].cost, t)>> \in Byte \X Byte
  <2>1. c.entries[k] \in CommandEntry
    BY DEF Command
  <2>2. c.entries[k].dest_subnet \in Byte /\ c.entries[k].cost \in Byte
    BY <2>1 DEF CommandEntry
  <2> QED
    BY <2>2, <1>1, AddByte DEF NewCost
<1> QED
  BY <1>2 DEF Offers

\* What a step does with a data packet is one of the events.
LEMMA DataEventType ==
  ASSUME TypeOK, NEW t \in AllLinks, Receive(t)
  PROVE  event' \in Event
<1>1. CASE RecvCorrupt(t)
  BY <1>1 DEF RecvCorrupt, Event, DropCodes
<1>2. ASSUME NEW p \in DataPackets,
             DeliverToApp(p) \/ DropExpired(p) \/ ForwardData(p) \/ LoseData(p) \/ DropNoRoute(p)
      PROVE  event' \in Event
  <2>1. p \in DataPacket
    BY PacketAssumption
  <2>2. SUBNET(p.dest) \in Subnets /\ p.ttl \in 0 .. 15
    <3>1. p.dest \in 0 .. 4 * SUBNET_ADDRESS_MAX - 1 /\ p.ttl \in 0 .. 15
      BY <2>1 DEF DataPacket, Addresses
    <3> QED
      BY <3>1, SizeAssumption DEF SUBNET, Subnets
  <2>3. CASE DeliverToApp(p)
    BY <2>2, <2>3 DEF DeliverToApp, Event, ToApplication, Lost
  <2>4. CASE DropExpired(p)
    BY <2>4 DEF DropExpired, Event, DropCodes
  <2>5. CASE ForwardData(p)
    <3>1. p.ttl - 1 \in 1 .. 14
      BY <2>2, <2>5 DEF ForwardData, Routable
    <3> QED
      BY <2>2, <2>5, <3>1 DEF ForwardData, Reachable, Forwarded, Event
  <2>6. CASE LoseData(p)
    BY <2>2, <2>6 DEF LoseData, Lost, Event
  <2>7. CASE DropNoRoute(p)
    BY <2>7 DEF DropNoRoute, Event, DropCodes
  <2> QED
    BY <1>2, <2>3, <2>4, <2>5, <2>6, <2>7
<1>3. CASE RecvCommand(t)
  BY <1>3 DEF RecvCommand, Event
<1> QED
  BY <1>1, <1>2, <1>3 DEF Receive, RecvData

\* The loops only move the index and the flag of a frame.
LEMMA FrameUpdate ==
  ASSUME TypeOK, NEW t \in AllLinks
  PROVE  /\ [frame EXCEPT ![t].i = 0] \in [AllLinks -> Frame]
         /\ [frame EXCEPT ![t].i = @ + 1] \in [AllLinks -> Frame]
         /\ [frame EXCEPT ![t].i = @ + 1, ![t].changed = TRUE] \in [AllLinks -> Frame]
<1>1. frame[t] \in Frame /\ frame[t].i \in Nat /\ frame[t].i + 1 \in Nat
  BY DEF TypeOK, Frame
<1> QED
  BY <1>1 DEF TypeOK, Frame

\* No step of any thread leaves the types.
LEMMA TypeStep ==
  ASSUME TypeOK, \A u \in AllLinks : CallInv(u), [Next]_vars
  PROVE  TypeOK'
<1> USE DEF table, stack, net, vars
<1> NoEvent \in Event /\ \A code \in DropCodes : Dropped(code) \in Event
  BY DEF Event
<1>1. ASSUME NEW t \in AllLinks, Receive(t) PROVE TypeOK'
  <2>1. event' \in Event
    BY <1>1, DataEventType
  <2>2. CASE UNCHANGED <<table, stack, net, view, offered>>
    BY <2>1, <2>2 DEF TypeOK
  <2>3. CASE RecvCommand(t)
    <3>1. PICK c \in Commands : frame' = [frame EXCEPT ![t].cmd = c]
      BY <2>3 DEF RecvCommand
    <3>2. frame' \in [AllLinks -> Frame]
      BY <3>1, PacketAssumption DEF TypeOK, Frame
    <3>3. pc' \in [AllLinks -> Locations]
      BY <2>3 DEF RecvCommand, TypeOK, Locations
    <3> QED
      BY <2>1, <2>3, <3>2, <3>3 DEF RecvCommand, TypeOK
  <2> QED
    BY <1>1, <2>2, <2>3
       DEF Receive, RecvCorrupt, RecvData, DeliverToApp, DropExpired,
           ForwardData, LoseData, DropNoRoute
<1>2. ASSUME NEW t \in AllLinks, Fail(t) PROVE TypeOK'
  BY <1>2 DEF Fail, LinkBreak, ReadBroken, TypeOK
<1>3. ASSUME NEW t \in AllLinks, Work(t) PROVE TypeOK'
  <2> DEFINE MoveType == pc' \in [AllLinks -> Locations] /\ frame' \in [AllLinks -> Frame]
  <2>1. ASSUME Return(t) PROVE MoveType
    BY <2>1, EmptyFrameType DEF Return, Goto, TypeOK, Locations
  <2>2. ASSUME NextLink(t) PROVE MoveType
    BY <2>1, <2>2, FrameUpdate DEF NextLink, TypeOK
  <2>3. CASE DropOutdated(t)
    BY <2>1, <2>3 DEF DropOutdated, DropCodes, TypeOK
  <2>4. CASE PassTimestamp(t)
    BY <2>4 DEF PassTimestamp, Goto, Locations, TypeOK
  <2>5. CASE StoreTimestamp(t)
    <3>1. t \in Links /\ frame[t].cmd \in Command
      BY <2>5 DEF StoreTimestamp, At, TypeOK, Frame, CallInv
    <3>2. offered' \in [Links -> SUBSET (Byte \X Byte)]
      BY <2>5, <3>1, OffersType DEF StoreTimestamp, TypeOK
    <3>3. last_timestamp' \in Timestamp
      BY <2>5, <3>1 DEF StoreTimestamp, Command
    <3> QED
      BY <2>5, <3>2, <3>3 DEF StoreTimestamp, Goto, Locations, TypeOK
  <2>6. CASE CompareEntry(t)
    BY <2>6, FrameUpdate DEF CompareEntry, Goto, Locations, TypeOK
  <2>7. CASE CountEntry(t)
    <3>1. [frame EXCEPT ![t].count = dv_entry_count] \in [AllLinks -> Frame]
      BY DEF TypeOK, Frame
    <3> QED
      BY <2>7, <3>1 DEF CountEntry, Goto, Locations, TypeOK
  <2>8. CASE BumpCount(t)
    <3>1. frame[t].count \in Byte /\ 1 \in Byte
      BY DEF TypeOK, Frame, Byte
    <3>2. (frame[t].count + 1) % 256 \in Byte
      BY <3>1, AddByte
    <3> QED
      BY <2>8, <3>2 DEF BumpCount, Goto, Locations, TypeOK
  <2>9. CASE SetValid(t)
    BY <2>9 DEF SetValid, Goto, Locations, TypeOK, RouteEntry
  <2>10. CASE SetCost(t)
    <3>1. Offer(t) \in Byte
      BY <2>10, EntryType DEF SetCost, At, CallInv, Writing
    <3> QED
      BY <2>10, <3>1 DEF SetCost, Goto, Locations, TypeOK, RouteEntry
  <2>11. CASE SetHop(t)
    <3>1. t \in Byte
      BY <2>11, ConstantFacts DEF SetHop, At, CallInv
    <3> QED
      BY <2>11, <3>1, FrameUpdate DEF SetHop, Goto, Locations, TypeOK, RouteEntry
  <2>12. CASE EndUpdate(t)
    BY <2>1, <2>12, FrameUpdate DEF EndUpdate, Goto, Locations, TypeOK
  <2>13. CASE ScanEntry(t)
    <3>1. /\ frame[t] \in Frame /\ frame[t].i \in Nat /\ frame[t].i + 1 \in Nat
          /\ frame[t].out \in Seq(CommandEntry)
      BY DEF TypeOK, Frame
    <3>2. CASE frame[t].i < SUBNET_ADDRESS_MAX
      <4> DEFINE o == Append(frame[t].out, TableEntry(frame[t].i))
      <4>1. frame[t].i \in Subnets
        BY <3>1, <3>2, SizeAssumption DEF Subnets
      <4>2. TableEntry(frame[t].i) \in CommandEntry
        BY <4>1, ConstantFacts DEF TypeOK, RouteEntry, TableEntry, CommandEntry
      <4>3. o \in Seq(CommandEntry)
        BY <3>1, <4>2
      <4>4. [frame EXCEPT ![t].i = frame[t].i + 1, ![t].out = o] \in [AllLinks -> Frame]
        <5> HIDE DEF o
        <5> QED
          BY <3>1, <4>3 DEF TypeOK, Frame
      <4>5. frame' \in [AllLinks -> Frame]
        BY <2>13, <3>1, <3>2, <4>4, FrameUpdate, SizeAssumption DEF ScanEntry
      <4>6. ~(frame[t].i >= SUBNET_ADDRESS_MAX)
        BY <3>1, <3>2, SizeAssumption
      <4>7. pc' = pc
        BY <2>13, <4>6 DEF ScanEntry
      <4> QED
        BY <2>13, <4>5, <4>7 DEF ScanEntry, TypeOK
    <3>3. CASE ~(frame[t].i < SUBNET_ADDRESS_MAX)
      BY <2>13, <3>3, FrameUpdate DEF ScanEntry, Goto, Locations, TypeOK
    <3> QED
      BY <3>2, <3>3
  <2>14. CASE SendTable(t)
    <3>1. frame[t].out \in Seq(CommandEntry)
      BY DEF TypeOK, Frame
    <3> QED
      BY <2>2, <2>14, <3>1 DEF SendTable, TypeOK
  <2>15. CASE SendBroken(t)
    BY <2>1, <2>2, <2>15 DEF SendBroken, TypeOK
  <2> QED
    BY <1>3, <2>3, <2>4, <2>5, <2>6, <2>7, <2>8, <2>9, <2>10, <2>11, <2>12,
       <2>13, <2>14, <2>15 DEF Work
<1>4. CASE UNCHANGED vars
  BY <1>4 DEF TypeOK
<1> QED
  BY <1>1, <1>2, <1>3, <1>4 DEF Next

-----------------------------------------------------------------------------
(* Calls. *)

\* No step takes back an offer.
LEMMA OfferedGrows ==
  ASSUME TypeOK, [Next]_vars, NEW l \in Links
  PROVE  offered[l] \subseteq offered'[l]
<1>1. CASE \E t \in AllLinks : StoreTimestamp(t)
  BY <1>1 DEF StoreTimestamp, TypeOK
<1>2. CASE UNCHANGED offered
  BY <1>2
<1> QED
  BY <1>1, <1>2
     DEF Next, Receive, RecvCorrupt, RecvData, DeliverToApp, DropExpired,
         ForwardData, LoseData, DropNoRoute, RecvCommand, Fail, LinkBreak,
         ReadBroken, Work, DropOutdated, PassTimestamp, CompareEntry,
         CountEntry, BumpCount, SetValid, SetCost, SetHop, EndUpdate,
         ScanEntry, SendTable, SendBroken, vars

\* A call that does not move keeps its invariant.
LEMMA CallKept ==
  ASSUME TypeOK, [Next]_vars, NEW u \in AllLinks, CallInv(u),
         pc'[u] = pc[u], frame'[u] = frame[u]
  PROVE  CallInv(u)'
BY OfferedGrows DEF CallInv, Writing, Entry

\* A step of thread t leaves the other calls alone.
LEMMA OthersKept ==
  ASSUME TypeOK, NEW t \in AllLinks, Receive(t) \/ Work(t) \/ Fail(t),
         NEW u \in AllLinks, u # t
  PROVE  pc'[u] = pc[u] /\ frame'[u] = frame[u]
<1> USE DEF stack, Goto, Return, NextLink, TypeOK
<1>1. CASE Receive(t)
  BY <1>1 DEF Receive, RecvCorrupt, RecvData, DeliverToApp, DropExpired,
              ForwardData, LoseData, DropNoRoute, RecvCommand
<1>2. CASE Work(t)
  BY <1>2 DEF Work, DropOutdated, PassTimestamp, StoreTimestamp, CompareEntry,
              CountEntry, BumpCount, SetValid, SetCost, SetHop, EndUpdate,
              ScanEntry, SendTable, SendBroken
<1>3. CASE Fail(t)
  BY <1>3 DEF Fail, LinkBreak, ReadBroken
<1> QED
  BY <1>1, <1>2, <1>3

\* No step of any thread breaks the invariant of any call.
LEMMA CallStep ==
  ASSUME IInv, [Next]_vars, NEW u \in AllLinks
  PROVE  CallInv(u)'
<1>0. TypeOK /\ CallInv(u) /\ dv[MY_SUBNET] = Route(0, NO_NEXT_HOP_LINK)
  BY ConstantFacts DEF IInv, RouteInv
<1>1. CASE pc'[u] = pc[u] /\ frame'[u] = frame[u]
  BY <1>0, <1>1, CallKept
<1>2. ASSUME NEW t \in AllLinks, Receive(t) \/ Work(t) \/ Fail(t), u # t
      PROVE  CallInv(u)'
  BY <1>0, <1>1, <1>2, OthersKept
<1>3. CASE Receive(u)
  <2>1. CASE RecvCommand(u)
    <3>1. /\ u \in Links /\ pc'[u] = "check"
          /\ frame'[u].i = frame[u].i /\ frame[u].i >= 1 /\ frame'[u].out = <<>>
      BY <1>0, <1>3, <2>1 DEF Receive, RecvCommand, CallInv, TypeOK, Frame
    <3> QED
      BY <3>1 DEF CallInv, Writing
  <2> QED
    BY <1>1, <1>3, <2>1
       DEF Receive, RecvCorrupt, RecvData, DeliverToApp, DropExpired,
           ForwardData, LoseData, DropNoRoute, stack
<1>4. CASE Fail(u)
  BY <1>1, <1>4 DEF Fail, LinkBreak, ReadBroken, stack
<1>5. CASE Work(u)
  <2> USE DEF At, Goto, Entry
  <2>1. /\ frame[u] \in Frame
        /\ frame[u].i \in Nat /\ frame[u].cmd.entries \in Seq(CommandEntry)
        /\ pc[u] \in Locations
    BY <1>0 DEF TypeOK, Frame, Command
  <2> u \in Links
    BY <1>0, <1>5
       DEF CallInv, Work, DropOutdated, PassTimestamp, StoreTimestamp, CompareEntry,
           CountEntry, BumpCount, SetValid, SetCost, SetHop, EndUpdate,
           ScanEntry, SendTable, SendBroken
  <2>2. ASSUME Return(u) PROVE CallInv(u)'
    BY <1>0, <2>2 DEF Return, EmptyFrame, CallInv, Writing, TypeOK
  <2>3. CASE DropOutdated(u)
    BY <2>2, <2>3 DEF DropOutdated
  <2>4. CASE PassTimestamp(u)
    BY <1>0, <2>4 DEF PassTimestamp, CallInv, Writing, TypeOK
  <2>5. CASE StoreTimestamp(u)
    BY <1>0, <2>5 DEF StoreTimestamp, CallInv, Writing, TypeOK
  <2>6. CASE CompareEntry(u)
    <3>1. /\ u \in Links /\ frame[u].i >= 1 /\ frame[u].i <= Len(frame[u].cmd.entries)
          /\ Offers(frame[u].cmd.entries, u) \subseteq offered'[u]
          /\ frame[u].out = <<>>
      BY <1>0, <2>1, <2>6 DEF CompareEntry, AtEnd, CallInv, Writing
    <3>2. CASE Entry(u).dest_subnet \in Subnets /\ Improves(u) /\ Goto(u, "count") /\ UNCHANGED frame
      <4>1. Entry(u).dest_subnet # MY_SUBNET
        <5>1. Offer(u) \in Byte
          BY <1>0, <3>1, EntryType
        <5> QED
          BY <1>0, <3>2, <5>1 DEF Improves, Route, Byte
      <4>2. pc'[u] = "count" /\ frame' = frame
        BY <1>0, <3>2 DEF TypeOK
      <4> QED
        BY <1>0, <3>1, <3>2, <4>1, <4>2 DEF CallInv, Writing
    <3>3. CASE /\ pc'[u] = "compare" /\ frame'[u].i = frame[u].i + 1
               /\ frame'[u].cmd = frame[u].cmd /\ frame'[u].out = frame[u].out
      BY <1>0, <2>1, <3>1, <3>3 DEF CallInv, Writing
    <3> QED
      BY <1>0, <2>1, <2>6, <3>2, <3>3 DEF CompareEntry, TypeOK, Frame
  <2>7. CASE CountEntry(u)
    <3>1. /\ frame'[u].i = frame[u].i /\ frame'[u].cmd = frame[u].cmd
          /\ frame'[u].out = frame[u].out
          /\ pc'[u] \in {"bump", "valid"} /\ offered' = offered
      BY <1>0, <2>1, <2>7 DEF CountEntry, TypeOK, Frame
    <3> QED
      BY <1>0, <2>7, <3>1 DEF CountEntry, CallInv, Writing
  <2>8. CASE BumpCount(u)
    BY <1>0, <2>8 DEF BumpCount, CallInv, Writing, TypeOK
  <2>9. CASE SetValid(u)
    BY <1>0, <2>9 DEF SetValid, CallInv, Writing, TypeOK
  <2>10. CASE SetCost(u)
    BY <1>0, <2>10 DEF SetCost, CallInv, Writing, TypeOK
  <2>11. CASE SetHop(u)
    BY <1>0, <2>1, <2>11 DEF SetHop, CallInv, Writing, TypeOK
  <2>12. CASE EndUpdate(u)
    <3>1. CASE pc'[u] = "scan" /\ frame'[u].i = 0 /\ frame'[u].out = frame[u].out
      <4>1. frame'[u].out = <<>>
        BY <1>0, <2>12, <3>1 DEF EndUpdate, CallInv
      <4>2. frame'[u].i <= SUBNET_ADDRESS_MAX /\ Len(frame'[u].out) <= frame'[u].i
        BY <3>1, <4>1, SizeAssumption
      <4> QED
        BY <3>1, <4>2 DEF CallInv, Writing
    <3> QED
      BY <1>0, <2>1, <2>2, <2>12, <3>1 DEF EndUpdate, TypeOK, Frame
  <2>13. CASE ScanEntry(u)
    <3>0. /\ frame[u].out \in Seq(CommandEntry) /\ pc[u] = "scan"
          /\ Len(frame[u].out) \in Nat /\ Len(frame[u].out) <= frame[u].i
          /\ frame[u].i <= SUBNET_ADDRESS_MAX
      BY <1>0, <2>1, <2>13 DEF ScanEntry, CallInv, Frame
    <3>1. CASE /\ frame[u].i < SUBNET_ADDRESS_MAX
               /\ pc'[u] = "scan" /\ frame'[u].i = frame[u].i + 1
               /\ \/ frame'[u].out = frame[u].out
                  \/ frame'[u].out = Append(frame[u].out, TableEntry(frame[u].i))
      <4>1. frame'[u].i <= SUBNET_ADDRESS_MAX /\ Len(frame'[u].out) <= frame'[u].i
        BY <2>1, <3>0, <3>1, SizeAssumption
      <4> QED
        BY <3>1, <4>1 DEF CallInv, Writing
    <3>2. CASE pc'[u] = "send" /\ frame'[u].i = 0 /\ frame'[u].out = frame[u].out
      <4>1. \A m, n \in Nat : m <= n /\ n <= SUBNET_ADDRESS_MAX => m <= SUBNET_ADDRESS_MAX
        BY SizeAssumption
      <4>2. Len(frame'[u].out) <= SUBNET_ADDRESS_MAX
        BY <2>1, <3>0, <3>2, <4>1
      <4> QED
        BY <3>2, <4>2, ConstantFacts DEF CallInv, Writing
    <3> QED
      BY <1>0, <2>1, <2>13, <3>1, <3>2 DEF ScanEntry, TypeOK, Frame
  <2>14. CASE NextLink(u) /\ At(u, "send")
    <3>1. CASE /\ frame[u].i + 1 < ROUTER_LINK_COUNT
               /\ pc'[u] = "send" /\ frame'[u].i = frame[u].i + 1
               /\ frame'[u].out = frame[u].out
      BY <1>0, <2>1, <2>14, <3>1, SizeAssumption DEF CallInv, Writing, Links
    <3> QED
      BY <1>0, <2>1, <2>2, <2>14, <3>1 DEF NextLink, TypeOK, Frame
  <2>15. CASE SendTable(u) \/ SendBroken(u)
    BY <1>1, <2>2, <2>14, <2>15 DEF SendTable, SendBroken, stack
  <2> QED
    BY <1>5, <2>3, <2>4, <2>5, <2>6, <2>7, <2>8, <2>9, <2>10, <2>11, <2>12,
       <2>13, <2>15 DEF Work
<1>6. CASE UNCHANGED vars
  BY <1>1, <1>6 DEF vars, stack
<1> QED
  BY <1>2, <1>3, <1>4, <1>5, <1>6 DEF Next

-----------------------------------------------------------------------------
(* Routes. *)

\* A step that stores nothing in the table, nor ends such a store.
LEMMA RouteKept ==
  ASSUME IInv, [Next]_vars, NEW s \in Subnets, dv'[s] = dv[s],
         \A u \in Links : pc[u] \in {"cost", "hop"} /\ Entry(u).dest_subnet = s =>
                          pc'[u] \in {"cost", "hop"} /\ frame'[u] = frame[u]
  PROVE  RouteInv(s)'
<1>1. RouteInv(s) /\ TypeOK
  BY DEF IInv
<1>2. CASE \E c \in Byte : <<s, c>> \in offered[dv[s].next_hop_link]
  <2>1. CASE s = MY_SUBNET
    BY <1>1, <2>1, InitialEntryType DEF RouteInv
  <2>2. CASE s # MY_SUBNET
    BY <1>1, <1>2, <2>2, OfferedGrows DEF RouteInv
  <2> QED
    BY <2>1, <2>2
<1>3. CASE dv[s] = InitialEntry(s)
  BY <1>1, <1>3 DEF RouteInv
<1>4. CASE \E u \in Links : pc[u] \in {"cost", "hop"} /\ Entry(u).dest_subnet = s
  BY <1>1, <1>4 DEF RouteInv, Entry
<1> QED
  BY <1>1, <1>2, <1>3, <1>4 DEF RouteInv

\* No step of any thread breaks the invariant of the table.
LEMMA RouteStep ==
  ASSUME IInv, [Next]_vars, NEW s \in Subnets
  PROVE  RouteInv(s)'
<1>0. TypeOK /\ RouteInv(s) /\ \A u \in AllLinks : CallInv(u)
  BY DEF IInv
<1>1. CASE UNCHANGED <<dv, stack>>
  BY <1>1, RouteKept DEF stack
<1>2. ASSUME NEW t \in AllLinks, Work(t), dv' = dv, pc[t] \notin {"cost", "hop"}
      PROVE  RouteInv(s)'
  BY <1>0, <1>2, ConstantFacts, OthersKept, RouteKept
<1>3. ASSUME NEW t \in AllLinks, SetValid(t) \/ SetCost(t) \/ SetHop(t)
      PROVE  RouteInv(s)'
  <2>1. /\ t \in Links /\ pc[t] \in Writing
        /\ Entry(t).dest_subnet \in Subnets /\ Entry(t).dest_subnet # MY_SUBNET
        /\ <<Entry(t).dest_subnet, Offer(t)>> \in offered[t] /\ Offer(t) \in Byte
    <3>1. t \in Links /\ pc[t] \in Writing
      BY <1>0, <1>3 DEF CallInv, SetValid, SetCost, SetHop, At, Writing
    <3> QED
      BY <1>0, <3>1, EntryType DEF CallInv, Writing
  <2>2. CASE s # Entry(t).dest_subnet
    <3>1. dv'[s] = dv[s]
      BY <1>0, <1>3, <2>2 DEF SetValid, SetCost, SetHop, TypeOK
    <3>2. Work(t)
      BY <1>3 DEF Work
    <3> QED
      BY <1>0, <2>2, <3>1, <3>2, ConstantFacts, OthersKept, RouteKept
  <2>3. CASE s = Entry(t).dest_subnet /\ (SetValid(t) \/ SetCost(t))
    <3>1. /\ pc'[t] \in {"cost", "hop"} /\ frame' = frame
          /\ dv'[s].next_hop_link = dv[s].next_hop_link
      BY <1>0, <2>1, <2>3, ConstantFacts
         DEF SetValid, SetCost, Goto, TypeOK, RouteEntry
    <3> QED
      BY <1>0, <2>1, <2>3, <3>1 DEF RouteInv, Entry
  <2>4. CASE s = Entry(t).dest_subnet /\ SetHop(t)
    <3>1. dv'[s].next_hop_link = t /\ offered' = offered
      BY <1>0, <2>1, <2>4 DEF SetHop, TypeOK, RouteEntry
    <3> QED
      BY <2>1, <2>4, <3>1 DEF RouteInv
  <2> QED
    BY <1>3, <2>2, <2>3, <2>4
<1>4. ASSUME NEW t \in AllLinks, Receive(t)
      PROVE  RouteInv(s)'
  <2>1. CASE RecvCommand(t)
    <3>1. pc[t] = "idle" /\ dv' = dv
      BY <1>4, <2>1 DEF Receive, RecvCommand, table
    <3> QED
      BY <1>0, <1>4, <3>1, ConstantFacts, OthersKept, RouteKept
  <2> QED
    BY <1>1, <1>4, <2>1
       DEF Receive, RecvCorrupt, RecvData, DeliverToApp, DropExpired,
           ForwardData, LoseData, DropNoRoute, table
<1>5. ASSUME NEW t \in AllLinks, Fail(t)
      PROVE  RouteInv(s)'
  BY <1>1, <1>5 DEF Fail, LinkBreak, ReadBroken, table
<1>6. ASSUME NEW t \in AllLinks, Work(t)
      PROVE  RouteInv(s)'
  BY <1>2, <1>3, <1>6
     DEF Work, DropOutdated, PassTimestamp, StoreTimestamp, CompareEntry,
         CountEntry, BumpCount, EndUpdate, ScanEntry, SendTable, SendBroken,
         At, table
<1>7. CASE UNCHANGED vars
  BY <1>1, <1>7 DEF vars, table
<1> QED
  BY <1>4, <1>5, <1>6, <1>7 DEF Next

-----------------------------------------------------------------------------
(* Lost packets. *)

\* Only packets for the own subnet or for broken links are lost.
LEMMA LostStep ==
  ASSUME IInv, [Next]_vars
  PROVE  OnlyOwnSubnetIsLost'
<1>0. TypeOK /\ OnlyOwnSubnetIsLost /\ \A s \in Subnets : RouteInv(s)
  BY DEF IInv
<1>1. CASE UNCHANGED <<event, up>>
  BY <1>0, <1>1 DEF OnlyOwnSubnetIsLost
<1>2. CASE event'.kind # "lost"
  BY <1>2 DEF OnlyOwnSubnetIsLost
<1>3. ASSUME NEW p \in DataPackets, DeliverToApp(p)
      PROVE  OnlyOwnSubnetIsLost'
  <2>1. APP_LINK \in AllLinks
    BY SizeAssumption DEF APP_LINK, AllLinks
  <2>2. up' = up
    BY <1>3 DEF DeliverToApp, net
  <2> QED
    BY <1>3, <2>1, <2>2
       DEF DeliverToApp, ToApplication, Lost, OnlyOwnSubnetIsLost
<1>4. ASSUME NEW p \in DataPackets, LoseData(p)
      PROVE  OnlyOwnSubnetIsLost'
  <2> DEFINE s == SUBNET(p.dest)
  <2>1. s \in Subnets
    <3>1. p.dest \in 0 .. 4 * SUBNET_ADDRESS_MAX - 1
      BY PacketAssumption DEF DataPacket, Addresses
    <3> QED
      BY <3>1, SizeAssumption DEF SUBNET, Subnets
  <2>2. RouteInv(s)
    BY <1>0, <2>1
  <2>3. /\ event' = Lost(s) /\ up' = up
        /\ ~(dv[s].next_hop_link \in Links /\ up[dv[s].next_hop_link])
    BY <1>4 DEF LoseData, Reachable, net
  <2> HIDE DEF s
  <2> QED
    BY <1>0, <2>2, <2>3, ConstantFacts DEF RouteInv, Lost, OnlyOwnSubnetIsLost, TypeOK
<1>5. ASSUME NEW t \in AllLinks, Receive(t)
      PROVE  OnlyOwnSubnetIsLost'
  <2>1. CASE RecvCorrupt(t) \/ RecvCommand(t)
    BY <1>2, <2>1 DEF RecvCorrupt, RecvCommand, NoEvent, Dropped
  <2>2. ASSUME NEW p \in DataPackets, DropExpired(p) \/ ForwardData(p) \/ DropNoRoute(p)
        PROVE  OnlyOwnSubnetIsLost'
    BY <1>2, <2>2 DEF DropExpired, ForwardData, DropNoRoute, Dropped, Forwarded
  <2> QED
    BY <1>3, <1>4, <1>5, <2>1, <2>2 DEF Receive, RecvData
<1>6. ASSUME NEW t \in AllLinks, Work(t) \/ Fail(t)
      PROVE  event'.kind # "lost"
  BY <1>6
     DEF Work, DropOutdated, PassTimestamp, StoreTimestamp, CompareEntry,
         CountEntry, BumpCount, SetValid, SetCost, SetHop, EndUpdate, ScanEntry,
         SendTable, SendBroken, Fail, LinkBreak, ReadBroken, NoEvent, Dropped
<1>7. CASE UNCHANGED vars
  BY <1>1, <1>7 DEF vars, net
<1> QED
  BY <1>2, <1>5, <1>6, <1>7 DEF Next

-----------------------------------------------------------------------------
(* The invariants, for every interleaving of the threads. *)

\* The strengthened invariant is inductive.
LEMMA StepInv == IInv /\ [Next]_vars => IInv'
<1> SUFFICES ASSUME IInv, [Next]_vars PROVE IInv'
  OBVIOUS
<1>1. TypeOK'
  BY TypeStep DEF IInv
<1> QED
  BY <1>1, CallStep, RouteStep, LostStep DEF IInv

\* The strengthened invariant holds at all times, for every interleaving of
\* the calls of route().
THEOREM Invariance == Spec => []IInv
BY InitInv, StepInv, PTL DEF Spec

\* The routing table, the calls' locals and the packets sent stay within
\* their types, whatever the neighbours send.
THEOREM TypeCorrect == Spec => []TypeOK
<1>1. IInv => TypeOK
  BY DEF IInv
<1> QED
  BY <1>1, Invariance, PTL

\* No race and no claim of a neighbour changes the route to the router's
\* own subnet.
THEOREM SelfRouteKept == Spec => []SelfRoute
<1>1. IInv => SelfRoute
  BY ConstantFacts DEF IInv, RouteInv, SelfRoute
<1> QED
  BY <1>1, Invariance, PTL

\* A packet that disappears without a drop code was for the own subnet or
\* met a broken link: every other route has a usable next hop at any time.
THEOREM NoOtherPacketIsLost == Spec => []OnlyOwnSubnetIsLost
<1>1. IInv => OnlyOwnSubnetIsLost
  BY DEF IInv
<1> QED
  BY <1>1, Invariance, PTL

\* The races may leave a wrong cost or a worse route, but once every call
\* has ended each learnt route leads where that subnet was offered.
THEOREM LearntRoutesWereOffered == Spec => []RestingRouteWasOffered
<1>1. IInv => RestingRouteWasOffered
  BY ConstantFacts DEF IInv, RouteInv, RestingRouteWasOffered, AllIdle
<1> QED
  BY <1>1, Invariance, PTL

\* A table with every slot in use still fits a command packet, also when
\* other threads add routes while it is packed.
THEOREM BroadcastAlwaysFits == Spec => []BroadcastFits
<1>1. IInv => BroadcastFits
  <2> SUFFICES ASSUME IInv, NEW t \in AllLinks, pc[t] = "send"
               PROVE  /\ Len(frame[t].out) <= SUBNET_ADDRESS_MAX
                      /\ Len(frame[t].out) <= MAX_COMMAND_ENTRIES
                      /\ CommandLength(Len(frame[t].out)) <= MAX_PACKET_SIZE
    BY DEF BroadcastFits
  <2>1. Len(frame[t].out) \in Nat /\ Len(frame[t].out) <= SUBNET_ADDRESS_MAX
    BY DEF IInv, TypeOK, Frame, CallInv
  <2>2. Len(frame[t].out) <= 64
    BY <2>1, SizeAssumption
  <2>3. MAX_COMMAND_ENTRIES = 121
    BY DEF MAX_COMMAND_ENTRIES, MAX_PACKET_SIZE, HEADER_SIZE, COMMAND_HEADER_SIZE,
           COMMAND_ENTRY_SIZE
  <2> QED
    BY <2>1, <2>2, <2>3
       DEF CommandLength, MAX_PACKET_SIZE, HEADER_SIZE, COMMAND_HEADER_SIZE,
           COMMAND_ENTRY_SIZE
<1> QED
  BY <1>1, Invariance, PTL

-----------------------------------------------------------------------------
(* The router fed one packet at a time. *)

\* One call at a time, and a timestamp about to be stored is newer.
LockInv ==
  /\ IInv
  /\ \A t, u \in AllLinks : pc[t] # "idle" /\ pc[u] # "idle" => t = u
  /\ \A t \in AllLinks : pc[t] = "stamp" => frame[t].cmd.timestamp > last_timestamp

\* One packet at a time is a special case of every interleaving.
LEMMA LockNextIsNext == [LockStepNext]_vars => [Next]_vars
BY DEF LockStepNext, Next

\* With one packet at a time a timestamp that passed the test is still newer
\* than the last one when it is stored.
LEMMA LockStepInv == LockInv /\ [LockStepNext]_vars => LockInv'
<1> SUFFICES ASSUME LockInv, [LockStepNext]_vars PROVE LockInv'
  OBVIOUS
<1>0. TypeOK /\ TypeOK' /\ IInv'
  BY LockNextIsNext, StepInv DEF LockInv, IInv
<1>1. ASSUME NEW t \in AllLinks, (AllIdle /\ Receive(t)) \/ Work(t)
      PROVE  LockInv'
  <2>1. \A u \in AllLinks : u # t => pc[u] = "idle"
    BY <1>1 DEF LockInv, AllIdle, Work, DropOutdated, PassTimestamp, StoreTimestamp,
       CompareEntry, CountEntry, BumpCount, SetValid, SetCost, SetHop, EndUpdate,
       ScanEntry, SendTable, SendBroken, At
  <2>2. \A u \in AllLinks : u # t => pc'[u] = "idle"
    BY <1>0, <1>1, <2>1, OthersKept
  <2>3. pc'[t] = "stamp" => frame'[t].cmd.timestamp > last_timestamp'
    <3>1. CASE PassTimestamp(t)
      BY <3>1 DEF PassTimestamp, table
    <3>2. CASE AllIdle /\ Receive(t)
      BY <1>0, <3>2
         DEF AllIdle, Receive, RecvCorrupt, RecvData, DeliverToApp, DropExpired,
             ForwardData, LoseData, DropNoRoute, RecvCommand, stack, TypeOK
    <3>3. CASE Work(t) /\ ~PassTimestamp(t)
      BY <1>0, <3>3
         DEF Work, DropOutdated, StoreTimestamp, CompareEntry, CountEntry,
             BumpCount, SetValid, SetCost, SetHop, EndUpdate, ScanEntry, SendTable,
             SendBroken, NextLink, Return, Goto, At, stack, TypeOK
    <3> QED
      BY <1>1, <3>1, <3>2, <3>3
  <2> QED
    BY <1>0, <2>2, <2>3 DEF LockInv
<1>2. ASSUME NEW t \in AllLinks, Fail(t)
      PROVE  LockInv'
  BY <1>0, <1>2 DEF LockInv, Fail, LinkBreak, ReadBroken, stack, table
<1>3. CASE UNCHANGED vars
  BY <1>0, <1>3 DEF LockInv, vars, stack, table
<1> QED
  BY <1>1, <1>2, <1>3 DEF LockStepNext

\* Without races the clock of the router never goes back: an older command
\* is never accepted after a newer one.
THEOREM ClockMonotone == LockStepSpec => ClockNeverBack
<1>1. Init => LockInv
  BY InitInv DEF LockInv, Init
<1>2. LockInv /\ [LockStepNext]_vars => [last_timestamp' >= last_timestamp]_vars
  <2> SUFFICES ASSUME LockInv, [LockStepNext]_vars
               PROVE  [last_timestamp' >= last_timestamp]_vars
    OBVIOUS
  <2>0. last_timestamp \in Nat
    BY DEF LockInv, IInv, TypeOK, Timestamp
  <2>1. ASSUME NEW t \in AllLinks, StoreTimestamp(t)
        PROVE  last_timestamp' >= last_timestamp
    <3>1. frame[t].cmd.timestamp \in Nat
      BY DEF LockInv, IInv, TypeOK, Frame, Command, Timestamp
    <3> QED
      BY <2>0, <2>1, <3>1 DEF LockInv, StoreTimestamp, At
  <2>2. CASE last_timestamp' = last_timestamp
    BY <2>0, <2>2
  <2> QED
    BY <2>1, <2>2
       DEF LockStepNext, Receive, RecvCorrupt, RecvData, DeliverToApp, DropExpired,
           ForwardData, LoseData, DropNoRoute, RecvCommand, Fail, LinkBreak,
           ReadBroken, Work, DropOutdated, PassTimestamp, CompareEntry, CountEntry,
           BumpCount, SetValid, SetCost, SetHop, EndUpdate, ScanEntry, SendTable,
           SendBroken, vars, table
<1> QED
  BY <1>1, <1>2, LockStepInv, PTL DEF LockStepSpec, ClockNeverBack

=============================================================================
