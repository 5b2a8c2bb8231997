----------------------------- MODULE RouterApi -----------------------------
(***************************************************************************)
(* The vocabulary of the student router: addresses and subnets, the link   *)
(* table of the driver, distance-vector entries, and the two packet types  *)
(* as route() sees them after packet_deserialise().                        *)
(*                                                                         *)
(* Sizes are parameters so that small instances can be checked; the code   *)
(* has SUBNET_ADDRESS_MAX = 64, ROUTER_LINK_COUNT = 4 and, in its packets, *)
(* TIMESTAMP_MAX = 2^20 - 1.                                               *)
(***************************************************************************)
EXTENDS Integers, Sequences, FiniteSets

CONSTANTS
  SUBNET_ADDRESS_MAX,  \* number of slots of the routing table
  TIMESTAMP_MAX,       \* largest value of a command's 20-bit timestamp
  ROUTER_LINK_COUNT,   \* number of links to other subnets
  LINK_WEIGHTS,        \* [link -> cost of the link]
  NEIGHBOUR_SUBNETS,   \* [link -> subnet at its other end]
  ROUTER_ADDR,         \* address of this router
  APPLICATION_ADDR,    \* address of the application behind this router
  Commands,            \* command packets the neighbours may send
  DataPackets          \* data packets that may reach the router

Byte      == 0 .. 255
Timestamp == 0 .. TIMESTAMP_MAX
Subnets   == 0 .. SUBNET_ADDRESS_MAX - 1
Addresses == 0 .. 4 * SUBNET_ADDRESS_MAX - 1
Links     == 0 .. ROUTER_LINK_COUNT - 1

\* The link table has one extra slot, for the connection to the application.
APP_LINK == ROUTER_LINK_COUNT
AllLinks == 0 .. APP_LINK

\* The upper six bits of an address are its subnet.
SUBNET(addr) == addr \div 4
MY_SUBNET    == SUBNET(ROUTER_ADDR)

NO_NEXT_HOP_LINK == 255

\* router_get_link_weight(): -1 outside the netsim links.
LinkWeight(l) == IF l \in Links THEN LINK_WEIGHTS[l] ELSE -1

\* The drop codes route() reports through packet_drop().
DropCodes == {"CHECKSUM_ERROR", "TTL_ZERO", "NO_ROUTING_ENTRY", "OUTDATED_COMMAND"}

\* Mutation: the sum is not cut to a byte.
NewCostWide(cost, l) == cost + LinkWeight(l)

\* uint8_t new_cost = entry->cost + link weight: the sum is kept modulo 256.
NewCost(cost, l) == (cost + LinkWeight(l)) % 256

\* Sizes of command packets (packet.h).
HEADER_SIZE         == 8
COMMAND_HEADER_SIZE == 4
COMMAND_ENTRY_SIZE  == 2
MAX_PACKET_SIZE     == 255
MAX_COMMAND_ENTRIES ==
  (MAX_PACKET_SIZE - (HEADER_SIZE + COMMAND_HEADER_SIZE)) \div COMMAND_ENTRY_SIZE
CommandLength(count) ==
  HEADER_SIZE + COMMAND_HEADER_SIZE + COMMAND_ENTRY_SIZE * count

\* A command entry carries two raw bytes: its subnet may be out of range.
CommandEntry == [dest_subnet : Byte, cost : Byte]
Command      == [timestamp : Timestamp, entries : Seq(CommandEntry)]
DataPacket   == [dest : Addresses, ttl : 0 .. 15]

(***************************************************************************)
(* The routing table, the costs a broadcast of it carries, and what        *)
(* router_init() fills in: own subnet and the neighbours, the rest zero.   *)
(***************************************************************************)
RouteEntry == [is_valid : BOOLEAN, cost : Byte, next_hop_link : Byte]
Route(c, l) == [is_valid |-> TRUE, cost |-> c, next_hop_link |-> l]

\* <<subnet, cost>> of the valid entries of a table, and of a packet's entries.
Costs(t) == {<<s, t[s].cost>> : s \in {d \in Subnets : t[d].is_valid}}
CostsIn(entries) == {<<entries[k].dest_subnet, entries[k].cost>> : k \in DOMAIN entries}

\* Mutation: the unused entries are filled with 0xFF.
InitialEntryErased(s) ==
  IF s = MY_SUBNET
    THEN Route(0, NO_NEXT_HOP_LINK)
  ELSE IF \E l \in Links : NEIGHBOUR_SUBNETS[l] = s
    THEN LET l == CHOOSE k \in Links : NEIGHBOUR_SUBNETS[k] = s
         IN  Route(LINK_WEIGHTS[l], l)
  ELSE [is_valid |-> FALSE, cost |-> 255, next_hop_link |-> 255]

InitialEntry(s) ==
  IF s = MY_SUBNET
    THEN Route(0, NO_NEXT_HOP_LINK)
  ELSE IF \E l \in Links : NEIGHBOUR_SUBNETS[l] = s
    THEN LET l == CHOOSE k \in Links : NEIGHBOUR_SUBNETS[k] = s
         IN  Route(LINK_WEIGHTS[l], l)
  ELSE [is_valid |-> FALSE, cost |-> 0, next_hop_link |-> 0]

InitialTable == [s \in Subnets |-> InitialEntry(s)]

\* The routes a list of command entries offers to the receiver on link l.
Offers(entries, l) ==
  {<<entries[k].dest_subnet, NewCost(entries[k].cost, l)>> : k \in DOMAIN entries}

(***************************************************************************)
(* What the driver's tables guarantee: distinct neighbours, none of them   *)
(* the router's own subnet, weights that fit a byte.                       *)
(***************************************************************************)
ASSUME SizeAssumption ==
  /\ SUBNET_ADDRESS_MAX \in 1 .. 64
  /\ TIMESTAMP_MAX \in Nat
  /\ ROUTER_LINK_COUNT \in 1 .. 254

ASSUME LinkAssumption ==
  /\ LINK_WEIGHTS \in [Links -> Byte]
  /\ NEIGHBOUR_SUBNETS \in [Links -> Subnets]
  /\ \A k, l \in Links : NEIGHBOUR_SUBNETS[k] = NEIGHBOUR_SUBNETS[l] => k = l
  /\ \A l \in Links : NEIGHBOUR_SUBNETS[l] # MY_SUBNET

ASSUME AddressAssumption ==
  /\ ROUTER_ADDR \in Addresses
  /\ APPLICATION_ADDR \in Addresses

ASSUME PacketAssumption ==
  /\ Commands \subseteq Command
  /\ DataPackets \subseteq DataPacket

=============================================================================
