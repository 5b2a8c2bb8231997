------------------------------- MODULE MCWire -------------------------------
(***************************************************************************)
(* Packets whose bytes sum to values on both sides of 256, of 511 (where   *)
(* the folded sum first exceeds a byte) and beyond, with every field at    *)
(* the ends of its range.                                                  *)
(***************************************************************************)
EXTENDS Wire

Data == UNION {[1 .. n -> {0, 1, 90, 254}] : n \in 0 .. 3}

DataTests ==
  {[src |-> s, dest |-> 75, ttl |-> ttl, ack |-> ack, type |-> "data",
    seq_no |-> n, payload |-> d] :
     s \in {1, 21}, ttl \in {1, 2, 15}, ack \in BOOLEAN, n \in {0, 256, 4095}, d \in Data}

E(s, c) == [dest_subnet |-> s, cost |-> c]

Entries == { <<>>, << E(16, 43) >>, << E(45, 17), E(63, 255) >>, << E(16, 45), E(1, 100), E(63, 40) >> }

CommandTests ==
  {[src |-> 8, dest |-> 12, ttl |-> 14, ack |-> FALSE, type |-> "command", seq_no |-> n,
    payload |-> [timestamp |-> ts, entries |-> es]] :
     n \in {0, 257}, ts \in {0, 10004, 65537, 1048575}, es \in Entries}

\* Questions to the application: small ones, one from its own address, and
\* ones of 246 to 250 bytes, on both sides of its limits, whose bytes sum to
\* 392, so that the checksum 118 gets them past the router.
Question(s, ttl, n, d) ==
  [src |-> s, dest |-> 14, ttl |-> ttl, ack |-> FALSE, type |-> "data", seq_no |-> n, payload |-> d]

AppTests ==
  {Question(s, 15, n, d) : s \in {5, 14}, n \in {0, 4095}, d \in UNION {[1 .. k -> {0, 2}] : k \in 0 .. 3}}
  \cup {Question(0, 250 - n, 0, [k \in 1 .. n - 8 |-> 0]) : n \in 246 .. 250}

MCTestPackets == DataTests \cup CommandTests \cup AppTests

\* Tables of router_init(), with and without a route to subnet 16.
Table == << E(2, 2), E(3, 0), E(5, 3), E(18, 2), E(45, 11) >>
MCTables == { [dest |-> 8,   entries |-> SubSeq(Table, 1, 3)],
              [dest |-> 180, entries |-> Table],
              [dest |-> 180, entries |-> SubSeq(Table, 1, 3) \o << E(16, 45) >>
                                           \o SubSeq(Table, 4, 5)] }
=============================================================================
