------------------------------- MODULE Router -------------------------------
(***************************************************************************)
(* The student router.  main() starts one thread per link; every thread    *)
(* receives a packet and calls route() on it.  The threads share the       *)
(* routing table router.dv and last_timestamp and hold no lock, so a       *)
(* command packet is handled here one shared access at a time.             *)
(*                                                                         *)
(* Two accesses are merged where that loses no behaviour: a reader tests   *)
(* is_valid and then reads a field of the entry.  No code clears is_valid, *)
(* so the pair is as good as one read at the second access (or at the      *)
(* first, when the entry was not valid).  A data packet makes only such a  *)
(* pair of accesses and is therefore handled in one step.                  *)
(*                                                                         *)
(* A definition that a comment calls a mutation is no part of the model:   *)
(* it is a plausible bug in the definition after it, used to show that the *)
(* properties would notice.                                                *)
(***************************************************************************)
EXTENDS RouterApi

CONSTANT Breakable    \* the connections that may break

ASSUME BreakableAssumption == Breakable \subseteq AllLinks

VARIABLES
  last_timestamp,  \* timestamp of the last accepted command
  dv,              \* routing table: is_valid, cost and next hop per subnet
  dv_entry_count,  \* the driver's uint8_t count of valid entries
  pc,              \* where each thread is in route()
  frame,           \* locals of each thread's call of route()
  up,              \* which connections still work
  alive,           \* FALSE once expect() or SIGPIPE has ended the process
  view,            \* entries of the last table sent on each link
  event,           \* what the last step did with a data or a bad packet
  offered          \* (history) routes each link's accepted commands offered

table == <<last_timestamp, dv, dv_entry_count>>
stack == <<pc, frame>>
net   == <<up, alive>>
vars  == <<table, stack, net, view, event, offered>>

-----------------------------------------------------------------------------
(* Shapes of the state. *)

Locations == {"idle", "check", "stamp", "compare", "count", "bump", "valid",
              "cost", "hop", "scan", "send"}

Frame == [cmd : Command, i : Nat, changed : BOOLEAN, out : Seq(CommandEntry), count : Byte]

EmptyFrame == [cmd |-> [timestamp |-> 0, entries |-> <<>>],
               i |-> 1, changed |-> FALSE, out |-> <<>>, count |-> 0]

NoEvent         == [kind |-> "none"]
Dropped(code)   == [kind |-> "drop", code |-> code]
ToApplication   == [kind |-> "app"]
Forwarded(s, l, ttl) == [kind |-> "forward", subnet |-> s, link |-> l, ttl |-> ttl]
Lost(s)         == [kind |-> "lost", subnet |-> s]

Event == {NoEvent, ToApplication}
           \cup {Dropped(code) : code \in DropCodes}
           \cup [kind : {"forward"}, subnet : Subnets, link : Links, ttl : 1 .. 14]
           \cup [kind : {"lost"}, subnet : Subnets]

-----------------------------------------------------------------------------
(* main() and router_init(). *)

Init ==
  /\ last_timestamp = 0
  /\ dv = InitialTable
  /\ dv_entry_count = ROUTER_LINK_COUNT + 1
  /\ pc = [t \in AllLinks |-> "idle"]
  /\ frame = [t \in AllLinks |-> EmptyFrame]
  /\ up = [l \in AllLinks |-> TRUE]
  /\ alive = TRUE
  /\ view = [l \in Links |-> <<>>]
  /\ event = NoEvent
  /\ offered = [l \in Links |-> {}]

AllIdle == \A t \in AllLinks : pc[t] = "idle"

-----------------------------------------------------------------------------
(* Packets that route() finishes with at once: bad packets and data. *)

RecvCorrupt(t) ==
  /\ event' = Dropped("CHECKSUM_ERROR")
  /\ UNCHANGED <<table, stack, net, view, offered>>

\* send_buffer_to_app(): its result is ignored.
DeliverToApp(p) ==
  /\ p.dest = APPLICATION_ADDR
  /\ event' = IF up[APP_LINK] THEN ToApplication ELSE Lost(SUBNET(p.dest))
  /\ UNCHANGED <<table, stack, net, view, offered>>

DropExpired(p) ==
  /\ p.dest # APPLICATION_ADDR
  /\ p.ttl <= 1
  /\ event' = Dropped("TTL_ZERO")
  /\ UNCHANGED <<table, stack, net, view, offered>>

Routable(p) == p.dest # APPLICATION_ADDR /\ p.ttl > 1

\* send_buffer_to_link() refuses a hop that is no netsim link.
Reachable(s) == dv[s].next_hop_link \in Links /\ up[dv[s].next_hop_link]

ForwardData(p) ==
  LET s == SUBNET(p.dest) IN
  /\ Routable(p) /\ dv[s].is_valid /\ Reachable(s)
  /\ event' = Forwarded(s, dv[s].next_hop_link, p.ttl - 1)
  /\ UNCHANGED <<table, stack, net, view, offered>>

\* The send fails, or the kernel takes the bytes and loses them.
LoseData(p) ==
  LET s == SUBNET(p.dest) IN
  /\ Routable(p) /\ dv[s].is_valid /\ ~Reachable(s)
  /\ event' = Lost(s)
  /\ UNCHANGED <<table, stack, net, view, offered>>

DropNoRoute(p) ==
  /\ Routable(p) /\ ~dv[SUBNET(p.dest)].is_valid
  /\ event' = Dropped("NO_ROUTING_ENTRY")
  /\ UNCHANGED <<table, stack, net, view, offered>>

RecvData(t) ==
  \E p \in DataPackets :
     DeliverToApp(p) \/ DropExpired(p) \/ ForwardData(p) \/ LoseData(p) \/ DropNoRoute(p)

(* A command packet starts a call that takes several steps.  Commands come *)
(* from netsim: the application sends data only.                           *)
RecvCommand(t) ==
  /\ t \in Links
  /\ \E c \in Commands : frame' = [frame EXCEPT ![t].cmd = c]
  /\ pc' = [pc EXCEPT ![t] = "check"]
  /\ event' = NoEvent
  /\ UNCHANGED <<table, net, view, offered>>

\* recv() in link_handler() returned a packet and route() is called on it.
Receive(t) ==
  /\ alive /\ up[t] /\ pc[t] = "idle"
  /\ RecvCorrupt(t) \/ RecvData(t) \/ RecvCommand(t)

-----------------------------------------------------------------------------
(* Handling of a command packet, one shared access per step. *)

Entry(t)  == frame[t].cmd.entries[frame[t].i]
Offer(t)  == NewCost(Entry(t).cost, t)
At(t, l)  == alive /\ pc[t] = l
Goto(t, l) == pc' = [pc EXCEPT ![t] = l]

AtEnd(t)   == frame[t].i > Len(frame[t].cmd.entries)

\* Mutation: the entries of the last broadcast stay in the buffer.
ReturnKeepsOut(t) ==
  Goto(t, "idle") /\ frame' = [frame EXCEPT ![t] = [EmptyFrame EXCEPT !.out = frame[t].out]]
Return(t) == Goto(t, "idle") /\ frame' = [frame EXCEPT ![t] = EmptyFrame]

\* if(cmd->timestamp <= last_timestamp) ...
DropOutdated(t) ==
  /\ At(t, "check") /\ frame[t].cmd.timestamp <= last_timestamp
  /\ Return(t)
  /\ event' = Dropped("OUTDATED_COMMAND")
  /\ UNCHANGED <<table, net, view, offered>>

\* Mutation: the timestamp is not tested.
PassTimestampAlways(t) ==
  /\ At(t, "check")
  /\ Goto(t, "stamp")
  /\ event' = NoEvent
  /\ UNCHANGED <<table, frame, net, view, offered>>

PassTimestamp(t) ==
  /\ At(t, "check") /\ frame[t].cmd.timestamp > last_timestamp
  /\ Goto(t, "stamp")
  /\ event' = NoEvent
  /\ UNCHANGED <<table, frame, net, view, offered>>

\* ... else last_timestamp = cmd->timestamp.
StoreTimestamp(t) ==
  /\ At(t, "stamp")
  /\ last_timestamp' = frame[t].cmd.timestamp
  /\ Goto(t, "compare")
  /\ event' = NoEvent
  /\ offered' = [offered EXCEPT ![t] = @ \cup Offers(frame[t].cmd.entries, t)]
  /\ UNCHANGED <<dv, dv_entry_count, frame, net, view>>

\* Mutations: equal costs replace a route; the link's weight is forgotten.
ImprovesOnTie(t) ==
  LET e == dv[Entry(t).dest_subnet] IN ~e.is_valid \/ e.cost >= Offer(t)
ImprovesOnRawCost(t) ==
  LET e == dv[Entry(t).dest_subnet] IN ~e.is_valid \/ e.cost > Entry(t).cost

\* if(!dv || dv->cost > new_cost), for a subnet the table has a slot for.
Improves(t) ==
  LET e == dv[Entry(t).dest_subnet] IN ~e.is_valid \/ e.cost > Offer(t)

\* Mutation: the flag is assigned for every entry, so the last one decides.
CompareEntryForgets(t) ==
  /\ At(t, "compare") /\ ~AtEnd(t)
  /\ event' = NoEvent
  /\ UNCHANGED <<table, net, view, offered>>
  /\ \/ /\ Entry(t).dest_subnet \in Subnets /\ Improves(t)
        /\ Goto(t, "count") /\ UNCHANGED frame
     \/ /\ Entry(t).dest_subnet \in Subnets /\ ~Improves(t)
        /\ frame' = [frame EXCEPT ![t].i = @ + 1, ![t].changed = FALSE] /\ UNCHANGED pc
     \/ /\ Entry(t).dest_subnet \notin Subnets
        /\ frame' = [frame EXCEPT ![t].i = @ + 1, ![t].changed = TRUE] /\ UNCHANGED pc

\* dv_get_entry() and dv_set_entry() both refuse a subnet that is too
\* large; the result of the latter is ignored and the flag is set.
CompareEntry(t) ==
  /\ At(t, "compare") /\ ~AtEnd(t)
  /\ event' = NoEvent
  /\ UNCHANGED <<table, net, view, offered>>
  /\ \/ /\ Entry(t).dest_subnet \in Subnets /\ Improves(t)
        /\ Goto(t, "count") /\ UNCHANGED frame
     \/ /\ Entry(t).dest_subnet \in Subnets /\ ~Improves(t)
        /\ frame' = [frame EXCEPT ![t].i = @ + 1] /\ UNCHANGED pc
     \/ /\ Entry(t).dest_subnet \notin Subnets
        /\ frame' = [frame EXCEPT ![t].i = @ + 1, ![t].changed = TRUE] /\ UNCHANGED pc

\* Mutation: every store counts as a new entry.
CountEntryAlways(t) ==
  /\ At(t, "count")
  /\ Goto(t, "bump") /\ frame' = [frame EXCEPT ![t].count = dv_entry_count]
  /\ event' = NoEvent
  /\ UNCHANGED <<table, net, view, offered>>

\* dv_set_entry(): if(!is_valid) dv_entry_count += 1, a load and a store; the
\* test of is_valid is merged with the load.
CountEntry(t) ==
  /\ At(t, "count")
  /\ event' = NoEvent
  /\ UNCHANGED <<table, net, view, offered>>
  /\ IF dv[Entry(t).dest_subnet].is_valid
       THEN Goto(t, "valid") /\ UNCHANGED frame
       ELSE Goto(t, "bump") /\ frame' = [frame EXCEPT ![t].count = dv_entry_count]

BumpCount(t) ==
  /\ At(t, "bump")
  /\ dv_entry_count' = (frame[t].count + 1) % 256
  /\ Goto(t, "valid")
  /\ event' = NoEvent
  /\ UNCHANGED <<last_timestamp, dv, frame, net, view, offered>>

SetValid(t) ==
  /\ At(t, "valid")
  /\ dv' = [dv EXCEPT ![Entry(t).dest_subnet].is_valid = TRUE]
  /\ Goto(t, "cost")
  /\ event' = NoEvent
  /\ UNCHANGED <<last_timestamp, dv_entry_count, frame, net, view, offered>>

SetCost(t) ==
  /\ At(t, "cost")
  /\ dv' = [dv EXCEPT ![Entry(t).dest_subnet].cost = Offer(t)]
  /\ Goto(t, "hop")
  /\ event' = NoEvent
  /\ UNCHANGED <<last_timestamp, dv_entry_count, frame, net, view, offered>>

\* Mutation: the next hop is not stored.
SetHopMissing(t) ==
  /\ At(t, "hop")
  /\ Goto(t, "compare")
  /\ frame' = [frame EXCEPT ![t].i = @ + 1, ![t].changed = TRUE]
  /\ event' = NoEvent
  /\ UNCHANGED <<table, net, view, offered>>

\* The last store of dv_set_entry(); route() sets its flag and loops.
SetHop(t) ==
  /\ At(t, "hop")
  /\ dv' = [dv EXCEPT ![Entry(t).dest_subnet].next_hop_link = t]
  /\ Goto(t, "compare")
  /\ frame' = [frame EXCEPT ![t].i = @ + 1, ![t].changed = TRUE]
  /\ event' = NoEvent
  /\ UNCHANGED <<last_timestamp, dv_entry_count, net, view, offered>>

\* Mutation: the table is sent without being asked for.
EndUpdateAlways(t) ==
  /\ At(t, "compare") /\ AtEnd(t)
  /\ Goto(t, "scan") /\ frame' = [frame EXCEPT ![t].i = 0]
  /\ event' = NoEvent
  /\ UNCHANGED <<table, net, view, offered>>

\* if(did_table_change), with i restarted at the first subnet.
EndUpdate(t) ==
  /\ At(t, "compare") /\ AtEnd(t)
  /\ IF frame[t].changed
       THEN Goto(t, "scan") /\ frame' = [frame EXCEPT ![t].i = 0]
       ELSE Return(t)
  /\ event' = NoEvent
  /\ UNCHANGED <<table, net, view, offered>>

TableEntry(s) == [dest_subnet |-> s, cost |-> dv[s].cost]

\* One round of the loop that copies the table into the outgoing packet.
ScanEntry(t) ==
  /\ At(t, "scan")
  /\ event' = NoEvent
  /\ UNCHANGED <<table, net, view, offered>>
  /\ LET s == frame[t].i IN
       \/ /\ s < SUBNET_ADDRESS_MAX /\ dv[s].is_valid
          /\ frame' = [frame EXCEPT ![t].i = s + 1, ![t].out = Append(@, TableEntry(s))]
          /\ UNCHANGED pc
       \/ /\ s < SUBNET_ADDRESS_MAX /\ ~dv[s].is_valid
          /\ frame' = [frame EXCEPT ![t].i = s + 1]
          /\ UNCHANGED pc
       \/ /\ s >= SUBNET_ADDRESS_MAX
          /\ frame' = [frame EXCEPT ![t].i = 0]
          /\ Goto(t, "send")

\* Mutation: the last link is not served.
NextLinkShort(t) ==
  IF frame[t].i + 2 < ROUTER_LINK_COUNT
    THEN frame' = [frame EXCEPT ![t].i = @ + 1] /\ UNCHANGED pc
    ELSE Return(t)

\* One round of the loop over the links; the call returns after the last.
NextLink(t) ==
  IF frame[t].i + 1 < ROUTER_LINK_COUNT
    THEN frame' = [frame EXCEPT ![t].i = @ + 1] /\ UNCHANGED pc
    ELSE Return(t)

SendTable(t) ==
  /\ At(t, "send") /\ up[frame[t].i]
  /\ view' = [view EXCEPT ![frame[t].i] = frame[t].out]
  /\ NextLink(t)
  /\ event' = NoEvent
  /\ UNCHANGED <<table, net, offered>>

\* send() on a broken connection: the bytes are taken and lost, or it
\* fails and route() returns, or SIGPIPE ends the process.
SendBroken(t) ==
  /\ At(t, "send") /\ ~up[frame[t].i]
  /\ event' = NoEvent
  /\ UNCHANGED <<table, up, view, offered>>
  /\ \/ NextLink(t) /\ UNCHANGED alive
     \/ Return(t) /\ UNCHANGED alive
     \/ alive' = FALSE /\ UNCHANGED stack

Work(t) ==
  \/ DropOutdated(t) \/ PassTimestamp(t) \/ StoreTimestamp(t)
  \/ CompareEntry(t) \/ CountEntry(t) \/ BumpCount(t)
  \/ SetValid(t) \/ SetCost(t) \/ SetHop(t)
  \/ EndUpdate(t) \/ ScanEntry(t) \/ SendTable(t) \/ SendBroken(t)

-----------------------------------------------------------------------------
(* Failures. *)

LinkBreak(l) ==
  /\ alive /\ l \in Breakable /\ up[l]
  /\ up' = [up EXCEPT ![l] = FALSE]
  /\ event' = NoEvent
  /\ UNCHANGED <<table, stack, alive, view, offered>>

\* recv() <= 0: expect() ends the whole process.
ReadBroken(t) ==
  /\ alive /\ ~up[t] /\ pc[t] = "idle"
  /\ alive' = FALSE
  /\ event' = NoEvent
  /\ UNCHANGED <<table, stack, up, view, offered>>

-----------------------------------------------------------------------------
Fail(t) == LinkBreak(t) \/ ReadBroken(t)

Next == \E t \in AllLinks : Receive(t) \/ Work(t) \/ Fail(t)

Spec == Init /\ [][Next]_vars

(* netsim sends the router one packet per test and waits for the answer or *)
(* a timeout before the next: a packet arrives when no call is running.    *)
LockStepNext == \E t \in AllLinks : (AllIdle /\ Receive(t)) \/ Work(t) \/ Fail(t)

LockStepSpec == Init /\ [][LockStepNext]_vars

\* The scheduler runs every thread that has something to do.
FairSpec == LockStepSpec /\ \A t \in AllLinks : WF_vars(Work(t))
=============================================================================
