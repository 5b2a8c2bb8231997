-------------------------------- MODULE Wire --------------------------------
(***************************************************************************)
(* The journey of a packet between the network simulator (Rust) and the    *)
(* router (C): netsim serialises a test packet, the router deserialises    *)
(* it, forwards it, answers a command with its table or has the            *)
(* application answer, and netsim deserialises that.  Each program has its *)
(* own serialiser, deserialiser and checksum for the one format.           *)
(*                                                                         *)
(* A packet is a record; on the wire it is the sequence of its bytes.      *)
(*                                                                         *)
(* A definition that a comment calls a mutation is no part of the model:   *)
(* it is a plausible bug in the definition after it, used to show that the *)
(* properties would notice.                                                *)
(***************************************************************************)
EXTENDS Checksum, Sequences

CONSTANTS
  TestPackets,      \* packets netsim sends
  Tables,           \* command payloads the router may broadcast
  CustomChecksums   \* wrong checksum bytes a test case may ask for

VARIABLES
  channel,  \* who has the packet now
  sent,     \* the packet that was last serialised: None or Some(packet)
  wire,     \* its bytes
  got,      \* what the last deserialiser made of them, None if it refused
  asked     \* history: the question the application got, or None

vars == <<channel, sent, wire, got, asked>>

APPLICATION_ADDR == 14

None    == <<>>
Some(p) == <<p>>

-----------------------------------------------------------------------------
(* The format, which both programs write the same way up to the checksum. *)

TypeCode(type) == IF type = "command" THEN 4 ELSE 8
Flag(b)        == IF b THEN 1 ELSE 0

EntryBytes(entries) ==
  [k \in 1 .. 2 * Len(entries) |->
     IF k % 2 = 1 THEN entries[(k + 1) \div 2].dest_subnet ELSE entries[k \div 2].cost]

CommandBytes(cmd) ==
  << Len(cmd.entries), (cmd.timestamp \div 65536) % 16,
     (cmd.timestamp \div 256) % 256, cmd.timestamp % 256 >> \o EntryBytes(cmd.entries)

PayloadBytes(p) == IF p.type = "command" THEN CommandBytes(p.payload) ELSE p.payload

\* packet_t and RaniPacket: fields within the ranges of their bits, and a
\* payload that leaves the length within a byte.
Octet       == 0 .. 255
Nibble      == 0 .. 15
SeqNo       == 0 .. 4095
Timestamp   == {t \in Nat : t \div 65536 < 16}
Entry       == [dest_subnet : Octet, cost : Octet]
CommandType == [timestamp : Timestamp, entries : Seq(Entry)]
PacketOf(type, payloads) ==
  [src : Octet, dest : Octet, ttl : Nibble, ack : BOOLEAN,
   type : {type}, seq_no : SeqNo, payload : payloads]
IsPacket(p) ==
  /\ \/ p.type = "data"    /\ p \in PacketOf("data", Seq(Octet))
     \/ p.type = "command" /\ p \in PacketOf("command", CommandType)
  /\ 8 + Len(PayloadBytes(p)) <= 255

\* The test cases hold packets; a table fits a packet (BroadcastFits in
\* RouterProps).
ASSUME PacketsAssumption ==
  /\ \A p \in TestPackets : IsPacket(p)
  /\ \A table \in Tables :
       /\ table.dest \in Octet /\ table.entries \in Seq(Entry)
       /\ 12 + 2 * Len(table.entries) <= 255
  /\ CustomChecksums \subseteq Octet

\* Header with checksum byte c, then the payload.
PacketBytes(p, c) ==
  << p.src, p.dest, 8 + Len(PayloadBytes(p)), p.ttl + 64 * Flag(p.ack),
     TypeCode(p.type) * 16 + ((p.seq_no \div 256) % 16), p.seq_no % 256, c, 0 >>
  \o PayloadBytes(p)

\* The sum of the bytes from s[1] to s[2], by halves, as TLC's folds go one
\* level deeper for each byte.
Spans == (0 .. 255) \X (0 .. 255)
PartSums(bytes) ==
  LET Part[s \in Spans] ==
        IF s[1] > s[2] THEN 0
        ELSE IF s[1] = s[2] THEN bytes[s[1]]
        ELSE LET m == (s[1] + s[2]) \div 2 IN Part[<<s[1], m>>] + Part[<<m + 1, s[2]>>]
  IN Part

Sum(bytes) == PartSums(bytes)[<<1, Len(bytes)>>]

\* Mutation: the checksum byte is not cleared before it is computed.
CSerialiseUncleared(p) ==
  LET old == CChecksum(Sum(PacketBytes([p EXCEPT !.ttl = @ + 1], 0)))
  IN  PacketBytes(p, CChecksum(Sum(PacketBytes(p, old))))

\* packet_serialise() and RaniPacket::serialise().
CSerialise(p) == PacketBytes(p, CChecksum(Sum(PacketBytes(p, 0))))
RSerialise(p) == PacketBytes(p, RChecksum(Sum(PacketBytes(p, 0))))

-----------------------------------------------------------------------------
(* Reading it back.  Bytes are counted from 0 in the code. *)

Byte(bytes, k) == bytes[k + 1]

Header(bytes) ==
  [src    |-> Byte(bytes, 0),
   dest   |-> Byte(bytes, 1),
   ttl    |-> Byte(bytes, 3) % 16,
   ack    |-> (Byte(bytes, 3) \div 64) % 2 = 1,
   type   |-> CASE Byte(bytes, 4) \div 16 = 4 -> "command"
                [] Byte(bytes, 4) \div 16 = 8 -> "data"
                [] OTHER -> "invalid",
   seq_no |-> 256 * (Byte(bytes, 4) % 16) + Byte(bytes, 5)]

\* Mutation: the upper bits of the timestamp are shifted too little.
CommandShifted(bytes) ==
  [timestamp |-> 4096 * (Byte(bytes, 9) % 16) + 256 * Byte(bytes, 10) + Byte(bytes, 11),
   entries   |-> [k \in 1 .. Byte(bytes, 8) |->
                    [dest_subnet |-> Byte(bytes, 10 + 2 * k),
                     cost        |-> Byte(bytes, 11 + 2 * k)]]]

Command(bytes) ==
  [timestamp |-> 65536 * (Byte(bytes, 9) % 16) + 256 * Byte(bytes, 10) + Byte(bytes, 11),
   entries   |-> [k \in 1 .. Byte(bytes, 8) |->
                    [dest_subnet |-> Byte(bytes, 10 + 2 * k),
                     cost        |-> Byte(bytes, 11 + 2 * k)]]]

Payload(bytes) ==
  IF Header(bytes).type = "command" THEN Command(bytes)
  ELSE SubSeq(bytes, 9, Byte(bytes, 2))

Decode(bytes) ==
  LET h == Header(bytes)
  IN  [src |-> h.src, dest |-> h.dest, ttl |-> h.ttl, ack |-> h.ack,
       type |-> h.type, seq_no |-> h.seq_no, payload |-> Payload(bytes)]

\* Mutation: the checksum is not looked at.
CDeserialiseBlind(bytes) ==
  IF Len(bytes) >= 8 /\ Len(bytes) >= Byte(bytes, 2) /\ Header(bytes).type # "invalid"
    THEN Some(Decode(bytes)) ELSE None

\* packet_deserialise(): checksum first, then lengths and type.
CDeserialise(bytes) ==
  IF CValid(Sum(bytes)) /\ Len(bytes) >= 8 /\ Len(bytes) >= Byte(bytes, 2)
       /\ Header(bytes).type # "invalid"
    THEN Some(Decode(bytes)) ELSE None

\* RaniPacket::deserialise(): the length is needed for data, the entry
\* count for commands.
RDeserialise(bytes) ==
  IF Len(bytes) >= 8 /\ RValid(Sum(bytes)) /\ Header(bytes).type # "invalid"
       /\ Len(bytes) >= Byte(bytes, 2)
       /\ (Header(bytes).type = "command" =>
             Len(bytes) >= 12 /\ Len(bytes) >= 12 + 2 * Byte(bytes, 8))
    THEN Some(Decode(bytes)) ELSE None

-----------------------------------------------------------------------------
Init ==
  /\ channel = "idle" /\ sent = None /\ wire = <<>> /\ got = None /\ asked = None

\* A link thread of netsim sends the packet of a test case, if the case
\* says so with a checksum of its own.
NetsimSend ==
  /\ channel = "idle"
  /\ \E p \in TestPackets :
       /\ sent' = Some(p)
       /\ \/ wire' = RSerialise(p)
          \/ \E c \in CustomChecksums : wire' = [RSerialise(p) EXCEPT ![7] = c]
  /\ channel' = "to_router"
  /\ UNCHANGED <<got, asked>>

RouterReceive ==
  /\ channel = "to_router"
  /\ got' = CDeserialise(wire)
  /\ channel' = "at_router"
  /\ UNCHANGED <<sent, wire, asked>>

\* route() on a data packet for another subnet.
RouterForward ==
  /\ channel = "at_router" /\ got # None
  /\ got[1].type = "data" /\ got[1].dest # APPLICATION_ADDR /\ got[1].ttl > 1
  /\ sent' = Some([got[1] EXCEPT !.ttl = @ - 1])
  /\ wire' = CSerialise(sent'[1])
  /\ channel' = "to_netsim"
  /\ UNCHANGED <<got, asked>>

\* route() on a command that changed the table, for which it needs an entry:
\* the packet is used again with the router's entries, from its old
\* destination to a neighbour.
RouterBroadcast ==
  /\ channel = "at_router" /\ got # None
  /\ got[1].type = "command" /\ got[1].payload.entries # <<>>
  /\ \E table \in Tables :
       sent' = Some([got[1] EXCEPT !.src = got[1].dest, !.dest = table.dest,
                                   !.payload.entries = table.entries])
  /\ wire' = CSerialise(sent'[1])
  /\ channel' = "to_netsim"
  /\ UNCHANGED <<got, asked>>

Done == channel' = "idle" /\ sent' = None /\ wire' = <<>> /\ got' = None /\ asked' = None

\* The packet is refused, has expired, or is a command without news.
RouterConsume ==
  /\ channel = "at_router"
  /\ got # None /\ got[1].type = "data" => got[1].dest # APPLICATION_ADDR /\ got[1].ttl <= 1
  /\ Done

-----------------------------------------------------------------------------
(* The application: application(). *)

\* route() on a data packet for the application: the bytes as they came.
RouterDeliver ==
  /\ channel = "at_router" /\ got # None
  /\ got[1].type = "data" /\ got[1].dest = APPLICATION_ADDR
  /\ wire' = SubSeq(wire, 1, Byte(wire, 2))
  /\ asked' = got
  /\ channel' = "to_app"
  /\ UNCHANGED <<sent, got>>

AppReceive ==
  /\ channel = "to_app"
  /\ got' = CDeserialise(wire)
  /\ channel' = "at_app"
  /\ UNCHANGED <<sent, wire, asked>>

Hello == <<72, 101, 108, 108, 111, 32>>

\* Mutation: the answer goes on with the TTL of the question.
AnswerOldTtl(p) ==
  [p EXCEPT !.src = p.dest, !.dest = p.src, !.ack = TRUE,
            !.seq_no = (@ + 1) % 4096, !.payload = Hello \o @]

\* The answer, as its 12 bits of sequence number are written.
Answer(p) ==
  [p EXCEPT !.src = p.dest, !.dest = p.src, !.ttl = 15, !.ack = TRUE,
            !.seq_no = (@ + 1) % 4096, !.payload = Hello \o @]

AppAnswer ==
  /\ channel = "at_app" /\ got # None
  /\ got[1].type = "data" /\ Byte(wire, 2) <= 249
  /\ sent' = Some(Answer(got[1]))
  /\ wire' = CSerialise(sent'[1])
  /\ channel' = "to_router"
  /\ UNCHANGED <<got, asked>>

\* The question is too large, or moving the payload by 6, which moves as
\* many bytes as the whole packet has, ran over the end of pkt (its payload
\* has room for 252) and ended the program.
AppFail ==
  /\ channel = "at_app" /\ got # None
  /\ Byte(wire, 2) > 249 \/ Len(wire) + 6 > 252
  /\ Done

-----------------------------------------------------------------------------

NetsimReceive ==
  /\ channel = "to_netsim"
  /\ got' = RDeserialise(wire)
  /\ channel' = "at_netsim"
  /\ UNCHANGED <<sent, wire, asked>>

\* The test case has its verdict; the next one starts.
NetsimJudge ==
  /\ channel = "at_netsim"
  /\ Done

Next ==
  \/ NetsimSend \/ RouterReceive \/ RouterForward \/ RouterBroadcast
  \/ RouterConsume \/ RouterDeliver \/ AppReceive \/ AppAnswer \/ AppFail \/ NetsimReceive \/ NetsimJudge

Spec == Init /\ [][Next]_vars

-----------------------------------------------------------------------------
(* Properties. *)

\* Packets have the ranges of their bit fields, bytes are bytes, and no
\* packet is longer than the byte that holds its length.
TypeOK ==
  /\ channel \in {"idle", "to_router", "at_router", "to_app", "at_app", "to_netsim", "at_netsim"}
  /\ sent # None => IsPacket(sent[1])
  /\ got # None => IsPacket(got[1])
  /\ \A k \in DOMAIN wire : wire[k] \in Octet
  /\ Len(wire) <= 255

\* What a deserialiser accepts is the packet that was serialised, field for
\* field, in both directions.
AcceptedIsSent ==
  channel \in {"at_router", "at_netsim"} /\ got # None => got = sent

\* The router accepts a packet exactly if the one's complement sum of its
\* bytes, the checksum included, is zero (255).
RouterVerdict ==
  channel = "at_router" => (got # None <=> Sum(wire) % 255 = 0)

\* Packets whose other bytes sum to less than 256 get through in both
\* directions: their two checksums agree.  (The seventh byte is the
\* checksum.)
SmallPacketsArrive ==
  /\ \/ channel = "at_router" /\ wire = RSerialise(sent[1])
     \/ channel = "at_netsim"
  /\ Sum(wire) - wire[7] < 256
  => got = sent

\* The packet the router serialises for netsim after the application was
\* asked, compared field by field, is the one the test cases expect (whether
\* netsim then accepts its bytes is another matter): back to the sender, with
\* the next sequence number, the ACK, a fresh TTL less the hop through the
\* router, and "Hello " before the whole payload, whatever its length.
AnswerIsExpected ==
  channel = "to_netsim" /\ asked # None =>
    LET q == asked[1] IN
    sent = Some([src |-> APPLICATION_ADDR, dest |-> q.src, ttl |-> 14, ack |-> TRUE,
                 type |-> "data", seq_no |-> (q.seq_no + 1) % 4096, payload |-> Hello \o q.payload])

\* packet.h, protocol.rs: byte 6 is the "8-bit 1's complement checksum" of
\* the packet, so a packet netsim serialised is accepted by the router.
RouterAcceptsNetsim ==
  channel = "at_router" /\ wire = RSerialise(sent[1]) => got # None

=============================================================================
