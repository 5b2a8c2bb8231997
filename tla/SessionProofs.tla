--------------------------- MODULE SessionProofs ---------------------------
(***************************************************************************)
(* For every number of links and every sequence of tests: the state of a   *)
(* session is well typed; no thread uses the sockets before main() has     *)
(* stored them all; as long as no recv() ends within a packet, whoever     *)
(* ends properly ends with netsim's verdict; and prompt programs, whose    *)
(* recv() never do, answer one test after the other.                       *)
(***************************************************************************)
EXTENDS SessionProps, SequenceTheorems, TLAPS

Starting == {"connect", "store", "create", "count"}

\* The links main() is done with, and how many they are.
Counted ==
  IF main.pc \notin Starting THEN AllLinks
  ELSE IF main.link = APP_LINK THEN {} ELSE {APP_LINK} \cup 0 .. main.link - 1

CountOfCounted ==
  IF main.pc \notin Starting THEN NETSIM_LINK_COUNT + 1
  ELSE IF main.link = APP_LINK THEN 0 ELSE main.link + 1

\* main() has stored the sockets of the links it has counted, and of the one
\* it is about to count; and no thread is past the barrier before the end.
StartInv ==
  /\ links_yet_inactive = NETSIM_LINK_COUNT + 1 - CountOfCounted
  /\ link_sockets = Counted \cup {l \in AllLinks : main.pc \in {"create", "count"} /\ l = main.link}
  /\ main.pc \in Starting => \A t \in AllLinks : thread[t] \in {"none", "barrier"}

\* netsim has a verdict when it tells the links.
Typed == TypeOK /\ (netsim.pc = "tell" => verdict \in Flags)

IInv == Typed /\ StartInv

-----------------------------------------------------------------------------
\* What the constants are, by SessionAssumption.
LEMMA LinkFacts ==
  /\ Links = 0 .. NETSIM_LINK_COUNT - 1
  /\ AllLinks = 0 .. NETSIM_LINK_COUNT
  /\ APP_LINK \in AllLinks /\ Links \subseteq AllLinks /\ 0 \in Links
  /\ NETSIM_LINK_COUNT \in Nat \ {0}
  /\ Len(Tests) \in Nat /\ Cases = 1 .. Len(Tests)
  /\ \A n \in Cases : Tests[n].link \in Links
<1>1. /\ NETSIM_LINK_COUNT \in Nat \ {0}
      /\ Tests \in Seq([link : Links, kind : {"app", "router"}, size : PacketSizes \ TooLong])
  BY SessionAssumption
<1>2. Len(Tests) \in Nat
  BY <1>1
<1>3. ASSUME NEW n \in Cases
      PROVE  Tests[n].link \in Links
  <2>1. n \in 1 .. Len(Tests)
    BY DEF Cases
  <2>2. Tests[n] \in [link : Links, kind : {"app", "router"}, size : PacketSizes \ TooLong]
    BY <1>1, <2>1, ElementOfSeq
  <2> QED
    BY <2>2
<1> QED
  BY <1>1, <1>2, <1>3 DEF Links, AllLinks, APP_LINK, Cases

\* A test's packet fits a buffer, and is too large for an answer or leaves
\* room in the struct that is made of it.
LEMMA TestSizes ==
  ASSUME NEW n \in Cases
  PROVE  /\ Tests[n].size \in Sizes /\ Tests[n].size \in Nat /\ Tests[n].size <= MAX_PACKET_SIZE
         /\ Tests[n].size + Hello > PayloadRoom => Tests[n].size > MAX_PACKET_SIZE - Hello
<1> DEFINE S == PacketSizes \ TooLong
<1>1. n \in 1 .. Len(Tests)
  BY DEF Cases
<1>2. Tests[n] \in [link : Links, kind : {"app", "router"}, size : S]
  BY <1>1, SessionAssumption, ElementOfSeq
<1> HIDE DEF S
<1>3. Tests[n].size \in S
  BY <1>2
<1>4. \A k \in S : /\ k \in Sizes /\ k \in Nat /\ k <= MAX_PACKET_SIZE
                   /\ k + Hello > PayloadRoom => k > MAX_PACKET_SIZE - Hello
  BY SMT DEF S, Sizes, PacketSizes, TooLong, MAX_PACKET_SIZE, HEADER_SIZE, Hello, PayloadRoom
<1> QED
  BY <1>3, <1>4, Zenon

\* Packets that are sent are packets.
LEMMA SentType ==
  /\ \A n \in Cases : Data(n) \in Packet
  /\ \A f \in Flags : Final(f) \in Packet
<1>1. HEADER_SIZE \in Sizes
  BY SMT DEF HEADER_SIZE, Sizes, MAX_PACKET_SIZE
<1> QED
  BY <1>1, TestSizes DEF Data, Final, Packet

\* What a recv() takes of a connection and what it leaves, if it ends with a
\* packet: packets of the connection, and the first of them first.
LEMMA WholeReadType ==
  ASSUME NEW S, NEW stream \in Seq(S), NEW read \in WholeReads(stream)
  PROVE  /\ stream # <<>> /\ read.taken \in Seq(S) /\ read.rest \in Seq(S)
         /\ read.taken # <<>> /\ Head(read.taken) = Head(stream) /\ Head(stream) \in S
<1>1. PICK k \in DOMAIN stream :
        read = [taken |-> Taken(stream, k), rest |-> After(stream, k)]
  BY DEF WholeReads
<1>2. k \in 1 .. Len(stream) /\ Len(stream) \in Nat
  BY <1>1
<1>3. SubSeq(stream, 1, k) \in Seq(S) /\ SubSeq(stream, k + 1, Len(stream)) \in Seq(S)
  <2>1. \A i \in 1 .. Len(stream) : stream[i] \in S
    BY ElementOfSeq
  <2>2. \A i \in 1 .. k : stream[i] \in S
    BY <1>2, <2>1
  <2>3. \A i \in k + 1 .. Len(stream) : stream[i] \in S
    BY <1>2, <2>1
  <2> QED
    BY <1>2, <2>2, <2>3
<1>4. Len(SubSeq(stream, 1, k)) = k /\ SubSeq(stream, 1, k)[1] = stream[1] /\ stream[1] \in S
  BY <1>2
<1>5. stream # <<>> /\ SubSeq(stream, 1, k) # <<>>
  BY <1>2, <1>4
<1> QED
  BY <1>1, <1>3, <1>4, <1>5 DEF Taken, After

\* The same if it ends within one: then the parts of it are left.
LEMMA CutReadType ==
  ASSUME NEW stream \in Seq(Packet), NEW read \in CutReads(stream)
  PROVE  /\ stream # <<>> /\ read.taken \in Seq(Packet) /\ read.rest \in Seq(Packet)
         /\ read.taken # <<>>
<1>1. PICK k \in DOMAIN stream, f \in {"none"} \cup Flags, g \in {"none"} \cup Flags :
        /\ BytesLeft(stream, k) \in 1 .. stream[k].size - 1
        /\ read = CutAt(stream, k, f, g)
  BY DEF CutReads
<1>2. k \in 1 .. Len(stream) /\ Len(stream) \in Nat
  BY <1>1
<1>3. \A i \in 1 .. Len(stream) : stream[i] \in Packet
  BY ElementOfSeq
<1>4. stream[k].size \in 1 .. 255
  BY <1>2, <1>3 DEF Packet, Sizes, MAX_PACKET_SIZE
<1> DEFINE n == BytesLeft(stream, k)
           m == stream[k].size - n
           p == Part(f, m)
           q == Part(g, n)
<1>5. n \in 1 .. 255 /\ m \in 1 .. 255
  <2>1. \A a \in 1 .. 255 : \A b \in 1 .. a - 1 : b \in 1 .. 255 /\ a - b \in 1 .. 255
    BY SMT
  <2> QED
    BY <1>1, <1>4, <2>1, Zenon
<1> HIDE DEF n, m
<1>6. p \in Packet /\ q \in Packet
  BY <1>1, <1>5 DEF Part, Packet, Sizes, MAX_PACKET_SIZE
<1>7. read.taken = Append(Taken(stream, k - 1), p) /\ read.rest = <<q>> \o After(stream, k)
  BY <1>1 DEF n, m, CutAt
<1> HIDE DEF p, q
<1>8. Taken(stream, k - 1) \in Seq(Packet)
  <2>1. \A i \in 1 .. k - 1 : stream[i] \in Packet
    BY <1>2, <1>3
  <2> QED
    BY <1>2, <2>1 DEF Taken
<1>9. After(stream, k) \in Seq(Packet)
  <2>1. \A i \in k + 1 .. Len(stream) : stream[i] \in Packet
    BY <1>2, <1>3
  <2> QED
    BY <1>2, <2>1 DEF After
<1>10. <<q>> \in Seq(Packet)
  BY <1>6
<1>11. read.taken \in Seq(Packet) /\ read.taken # <<>>
  BY <1>6, <1>7, <1>8, AppendProperties
<1>12. read.rest \in Seq(Packet)
  BY <1>7, <1>9, <1>10, ConcatProperties
<1>13. stream # <<>>
  BY <1>2
<1> QED
  BY <1>11, <1>12, <1>13

LEMMA ReadType ==
  ASSUME NEW stream \in Seq(Packet), NEW read \in Reads(stream)
  PROVE  /\ stream # <<>> /\ read.taken \in Seq(Packet) /\ read.rest \in Seq(Packet)
         /\ read.taken # <<>> /\ Head(read.taken) \in Packet
<1>1. /\ stream # <<>> /\ read.taken \in Seq(Packet) /\ read.rest \in Seq(Packet)
      /\ read.taken # <<>>
  <2>1. CASE read \in WholeReads(stream)
    BY <2>1, WholeReadType
  <2>2. CASE read \in CutReads(stream)
    BY <2>2, CutReadType
  <2> QED
    BY <2>1, <2>2 DEF Reads
<1> QED
  BY <1>1
-----------------------------------------------------------------------------
(* The parts of a state, so that a step need only show what it changes. *)

\* Each step keeps the types and what is known of the start.
LEMMA InitInv == Init => IInv
<1> SUFFICES ASSUME Init PROVE IInv
  OBVIOUS
<1> USE LinkFacts DEF Init
<1>1. Typed
  <2>1. <<>> \in Seq(Packet)
    OBVIOUS
  <2>2. incoming \in [AllLinks -> Seq(Packet)] /\ to_app \in Seq(Packet)
    BY <2>1
  <2>3. cut \in BOOLEAN /\ prompt \in BOOLEAN
    BY Zenon
  <2>4. /\ main \in [pc : {"connect"}, link : AllLinks, error : BOOLEAN]
        /\ thread \in [AllLinks -> {"none"}]
        /\ netsim \in [pc : {"accept"}, test : 1 .. Len(Tests) + 1, told : SUBSET Links]
        /\ links_yet_inactive \in 0 .. NETSIM_LINK_COUNT + 1
    BY DEF InitiallyInactive
  <2> QED
    BY <2>2, <2>3, <2>4 DEF Typed, TypeOK
<1>2. StartInv
  BY DEF StartInv, InitiallyInactive, Counted, CountOfCounted, Starting
<1> QED
  BY <1>1, <1>2 DEF IInv

\* Steps that leave main() alone and no thread past the barrier.
LEMMA OthersKeepStart ==
  ASSUME IInv,
         UNCHANGED <<main, links_yet_inactive, link_sockets>>,
         thread' = thread \/ main.pc \notin Starting
  PROVE  StartInv'
BY DEF IInv, StartInv, Counted, CountOfCounted

LEMMA ConnectInv == ASSUME IInv, MainConnect PROVE IInv'
<1> USE LinkFacts DEF IInv, MainConnect, Running, At, remote, wires
<1>1. main' = [main EXCEPT !.pc = "store"] /\ main.pc = "connect"
  OBVIOUS
<1>2. Typed'
  BY <1>1 DEF Typed, TypeOK
<1>3. StartInv'
  BY <1>1 DEF Typed, TypeOK, StartInv, Counted, CountOfCounted, Starting
<1> QED
  BY <1>2, <1>3

LEMMA StoreInv == ASSUME IInv, MainStore PROVE IInv'
<1> USE LinkFacts DEF IInv, MainStore, Running, At, remote, wires
<1>1. main' = [main EXCEPT !.pc = "create"] /\ main.pc = "store" /\ main.link \in AllLinks
  BY DEF Typed, TypeOK
<1>2. Typed'
  BY <1>1 DEF Typed, TypeOK
<1>3. StartInv'
  BY <1>1 DEF Typed, TypeOK, StartInv, Counted, CountOfCounted, Starting
<1> QED
  BY <1>2, <1>3

LEMMA CreateInv == ASSUME IInv, MainCreate PROVE IInv'
<1> USE LinkFacts DEF IInv, MainCreate, Running, At, remote, wires
<1>1. main' = [main EXCEPT !.pc = "count"] /\ main.pc = "create" /\ main.link \in AllLinks
  BY DEF Typed, TypeOK
<1>2. Typed'
  BY <1>1 DEF Typed, TypeOK
<1>3. StartInv'
  BY <1>1 DEF Typed, TypeOK, StartInv, Counted, CountOfCounted, Starting
<1> QED
  BY <1>2, <1>3

\* main() counts the link whose socket it stored, and goes on to the next.
LEMMA CountInv == ASSUME IInv, MainCount PROVE IInv'
<1> USE LinkFacts DEF IInv
<1>1. /\ main.pc = "count" /\ main.link \in AllLinks /\ main.error \in BOOLEAN
      /\ main = [pc |-> main.pc, link |-> main.link, error |-> main.error]
      /\ main' = NextStage
      /\ links_yet_inactive' = links_yet_inactive - 1
      /\ UNCHANGED <<link_sockets, thread>>
  BY DEF Typed, TypeOK, MainCount, Running
<1>2. links_yet_inactive' = NETSIM_LINK_COUNT - CountOfCounted
  BY <1>1 DEF StartInv, CountOfCounted
<1>3. /\ link_sockets = Counted \cup {main.link}
      /\ \A t \in AllLinks : thread[t] \in {"none", "barrier"}
  BY <1>1 DEF StartInv, Starting
<1>4. ASSUME NEW pc \in {"connect", "join"}, NEW link \in AllLinks,
             main' = [main EXCEPT !.pc = pc, !.link = link],
             CountOfCounted \in 0 .. NETSIM_LINK_COUNT
      PROVE  Typed'
  <2>1. main' \in [pc : {"connect", "join"}, link : AllLinks, error : BOOLEAN]
    BY <1>1, <1>4
  <2>2. links_yet_inactive' \in 0 .. NETSIM_LINK_COUNT + 1
    BY <1>2, <1>4
  <2> QED
    BY <2>1, <2>2 DEF MainCount, Typed, TypeOK, remote, wires
<1>5. CASE main.link = APP_LINK
  <2>1. main' = [main EXCEPT !.pc = "connect", !.link = 0]
    BY <1>1, <1>5 DEF NextStage, APP_LINK
  <2>2. CountOfCounted = 0 /\ Counted = {}
    BY <1>1, <1>5 DEF CountOfCounted, Counted, Starting
  <2>3. CountOfCounted' = 1 /\ Counted' = {APP_LINK}
    BY <1>1, <2>1 DEF CountOfCounted, Counted, Starting, APP_LINK
  <2>4. StartInv'
    BY <1>1, <1>2, <1>3, <1>5, <2>1, <2>2, <2>3 DEF StartInv
  <2> QED
    BY <1>4, <2>1, <2>2, <2>4
<1>6. CASE main.link # APP_LINK /\ main.link + 1 \in Links
  <2>1. main' = [main EXCEPT !.pc = "connect", !.link = main.link + 1]
    BY <1>1, <1>6 DEF NextStage
  <2>2. CountOfCounted = main.link + 1 /\ Counted = {APP_LINK} \cup 0 .. main.link - 1
    BY <1>1, <1>6 DEF CountOfCounted, Counted, Starting
  <2>3. main'.pc = "connect" /\ main'.link = main.link + 1 /\ main'.link # APP_LINK
    BY <1>1, <1>6, <2>1 DEF APP_LINK
  <2>4. CountOfCounted' = main.link + 2 /\ Counted' = {APP_LINK} \cup 0 .. main.link
    BY <1>1, <2>3 DEF CountOfCounted, Counted, Starting
  <2>5. link_sockets' = Counted'
    BY <1>1, <1>3, <2>2, <2>4
  <2>6. StartInv'
    BY <1>1, <1>2, <1>3, <2>2, <2>3, <2>4, <2>5 DEF StartInv
  <2> QED
    BY <1>1, <1>4, <1>6, <2>1, <2>2, <2>6
<1>7. CASE main.link # APP_LINK /\ main.link + 1 \notin Links
  <2>1. main' = [main EXCEPT !.pc = "join", !.link = 0]
    BY <1>1, <1>7 DEF NextStage
  <2>2. main.link = NETSIM_LINK_COUNT - 1
    BY <1>1, <1>7 DEF APP_LINK
  <2>3. CountOfCounted = NETSIM_LINK_COUNT /\ Counted = {APP_LINK} \cup 0 .. main.link - 1
    BY <1>1, <1>7, <2>2 DEF CountOfCounted, Counted, Starting
  <2>4. main'.pc = "join"
    BY <1>1, <2>1
  <2>5. CountOfCounted' = NETSIM_LINK_COUNT + 1 /\ Counted' = AllLinks
    BY <2>4 DEF CountOfCounted, Counted, Starting
  <2>6. link_sockets' = Counted'
    BY <1>1, <1>3, <2>2, <2>3, <2>5 DEF APP_LINK
  <2>7. StartInv'
    BY <1>2, <2>3, <2>4, <2>5, <2>6 DEF StartInv, Starting
  <2>8. /\ "join" \in {"connect", "join"} /\ 0 \in AllLinks
        /\ CountOfCounted \in 0 .. NETSIM_LINK_COUNT
    BY <2>3
  <2>9. Typed'
    BY <1>4, <2>1, <2>8
  <2> QED
    BY <2>7, <2>9
<1> QED
  BY <1>5, <1>6, <1>7

LEMMA JoinInv == ASSUME IInv, MainJoin PROVE IInv'
<1> USE LinkFacts DEF IInv
<1> DEFINE error == main.error \/ thread[main.link] = "ERR"
<1>1. /\ main \in [pc : {"join"}, link : AllLinks, error : BOOLEAN]
      /\ main.link \in AllLinks
  BY DEF MainJoin, Running, Typed, TypeOK
<1>2. error \in BOOLEAN
  BY Zenon
<1>3. main' = IF JoinsLeft THEN [main EXCEPT !.link = main.link + 1, !.error = error]
                           ELSE [main EXCEPT !.pc = "tell", !.error = error]
  BY Zenon DEF MainJoin
<1> HIDE DEF error
<1>4. main' \in [pc : {"join", "tell"}, link : AllLinks, error : BOOLEAN]
  <2>1. CASE JoinsLeft
    <3>1. main.link + 1 \in AllLinks
      BY <1>1, <2>1 DEF JoinsLeft
    <3>2. main' = [main EXCEPT !.link = main.link + 1, !.error = error]
      BY <1>3, <2>1
    <3> QED
      BY <1>1, <1>2, <3>1, <3>2
  <2>2. CASE ~JoinsLeft
    BY <1>1, <1>2, <1>3, <2>2
  <2> QED
    BY <2>1, <2>2
<1>5. Typed'
  BY <1>4 DEF MainJoin, Typed, TypeOK, remote, wires
<1>6. StartInv'
  BY <1>1, <1>4 DEF MainJoin, StartInv, Counted, CountOfCounted, Starting
<1> QED
  BY <1>5, <1>6

LEMMA TellInv == ASSUME IInv, MainTell PROVE IInv'
<1> USE LinkFacts DEF IInv, Running, At, remote
<1>1. /\ main.pc = "tell" /\ UNCHANGED <<links_yet_inactive, link_sockets, thread, app, remote,
                                        incoming, closed, answers, cut, prompt>>
      /\ \/ /\ main' = [main EXCEPT !.pc = "join_app"] /\ router' = router
            /\ to_app' = Append(to_app, Final(IF main.error THEN "ERR" ELSE "END"))
         \/ router' = "failed" /\ UNCHANGED <<main, to_app>>
  BY DEF MainTell
<1>2. Final(IF main.error THEN "ERR" ELSE "END") \in Packet
  BY SentType DEF Flags
<1>3. to_app' \in Seq(Packet)
  <2>1. to_app \in Seq(Packet)
    BY DEF Typed, TypeOK
  <2> QED
    BY <1>1, <1>2, <2>1, AppendProperties
<1>4. Typed'
  BY <1>1, <1>3 DEF Typed, TypeOK
<1>5. StartInv'
  BY <1>1 DEF Typed, TypeOK, StartInv, Counted, CountOfCounted, Starting
<1> QED
  BY <1>4, <1>5

LEMMA EndOfMainInv == ASSUME IInv, MainJoinApp \/ MainResults PROVE IInv'
<1> USE LinkFacts DEF IInv, MainJoinApp, MainResults, Running, At, remote, wires
<1>1. /\ main.pc \in {"join_app", "results"}
      /\ main' = [main EXCEPT !.pc = "results"] \/ main' = [main EXCEPT !.pc = "done"]
  OBVIOUS
<1>2. Typed'
  BY <1>1 DEF Typed, TypeOK
<1>3. StartInv'
  BY <1>1 DEF Typed, TypeOK, StartInv, Counted, CountOfCounted, Starting
<1> QED
  BY <1>2, <1>3

\* The barrier: the count is 0 only after main() has started everything.
LEMMA PassInv == ASSUME IInv, NEW t \in AllLinks, ThreadPass(t) PROVE IInv'
<1> USE LinkFacts DEF IInv, ThreadPass, remote, wires
<1>1. main.pc \notin Starting
  <2>1. links_yet_inactive <= 0 /\ main.link \in AllLinks
    BY DEF Typed, TypeOK
  <2> QED
    BY <2>1 DEF StartInv, CountOfCounted, APP_LINK
<1>2. Typed'
  BY DEF Typed, TypeOK
<1>3. StartInv'
  BY <1>1, OthersKeepStart
<1> QED
  BY <1>2, <1>3

\* A thread reads, and not before main() has started everything.
LEMMA ReadFromType ==
  ASSUME IInv, NEW t \in AllLinks, NEW read \in Reads(incoming[t]), ReadFrom(t, read)
  PROVE  /\ incoming' \in [AllLinks -> Seq(Packet)] /\ cut' \in BOOLEAN
         /\ Head(read.taken) \in Packet
         /\ router = "running" /\ thread[t] = "read" /\ main.pc \notin Starting
<1>1. incoming \in [AllLinks -> Seq(Packet)] /\ incoming[t] \in Seq(Packet)
  BY DEF IInv, Typed, TypeOK
<1>2. read.rest \in Seq(Packet) /\ Head(read.taken) \in Packet
  BY <1>1, ReadType
<1>3. incoming' = [incoming EXCEPT ![t] = read.rest] /\ router = "running" /\ thread[t] = "read"
  BY DEF ReadFrom, Reading
<1>4. cut' \in BOOLEAN
  BY Zenon DEF ReadFrom
<1>5. main.pc \notin Starting
  BY <1>3 DEF IInv, StartInv
<1> QED
  BY <1>1, <1>2, <1>3, <1>4, <1>5

\* The steps of threads, application and netsim leave the start as it is.
LEMMA EndInv == ASSUME IInv, NEW t \in AllLinks, ThreadEnd(t) PROVE IInv'
<1> USE LinkFacts DEF IInv, remote
<1>1. PICK read \in Reads(incoming[t]) :
        /\ ReadFrom(t, read) /\ Head(read.taken).flag \in Flags
        /\ thread' = [thread EXCEPT ![t] = Head(read.taken).flag]
        /\ UNCHANGED <<main, links_yet_inactive, link_sockets, router, app, remote, to_app, closed,
                       answers, prompt>>
  BY DEF ThreadEnd
<1>2. /\ incoming' \in [AllLinks -> Seq(Packet)] /\ cut' \in BOOLEAN
      /\ main.pc \notin Starting
  BY <1>1, ReadFromType
<1>3. Typed'
  BY <1>1, <1>2 DEF Typed, TypeOK
<1>4. StartInv'
  BY <1>1, <1>2, OthersKeepStart
<1> QED
  BY <1>3, <1>4

LEMMA RouteInv == ASSUME IInv, NEW t \in AllLinks, ThreadRoute(t) PROVE IInv'
<1> USE LinkFacts DEF IInv, driver, remote
<1>1. PICK read \in Reads(incoming[t]) :
        /\ ReadFrom(t, read)
        /\ to_app' = to_app \/ to_app' = Append(to_app, Head(read.taken))
        /\ router' = router \/ router' = "failed"
        /\ UNCHANGED <<driver, app, remote, closed, answers, prompt>>
  BY DEF ThreadRoute, SendOn
<1>2. /\ incoming' \in [AllLinks -> Seq(Packet)] /\ cut' \in BOOLEAN
      /\ Head(read.taken) \in Packet
  BY <1>1, ReadFromType
<1>3. to_app' \in Seq(Packet)
  <2>1. to_app \in Seq(Packet)
    BY DEF Typed, TypeOK
  <2>2. Append(to_app, Head(read.taken)) \in Seq(Packet)
    BY <1>2, <2>1, AppendProperties
  <2> QED
    BY <1>1, <2>1, <2>2, Zenon
<1>4. Typed'
  BY <1>1, <1>2, <1>3 DEF Typed, TypeOK
<1>5. StartInv'
  BY <1>1, OthersKeepStart
<1> QED
  BY <1>4, <1>5

LEMMA ReturnInv == ASSUME IInv, ThreadReturn PROVE IInv'
<1> USE LinkFacts DEF IInv, driver, remote
<1>1. PICK read \in Reads(incoming[APP_LINK]) :
        /\ ReadFrom(APP_LINK, read)
        /\ answers' = answers \/ (Head(read.taken).test \in Cases
                                  /\ answers' = answers \cup {Head(read.taken).test})
        /\ router' = router \/ router' = "failed"
        /\ UNCHANGED <<driver, app, remote, to_app, closed, prompt>>
  BY DEF ThreadReturn, SendOn
<1>2. incoming' \in [AllLinks -> Seq(Packet)] /\ cut' \in BOOLEAN
  BY <1>1, ReadFromType
<1>3. answers' \subseteq Cases /\ router' \in {"running", "failed", "ended"}
  BY <1>1 DEF Typed, TypeOK
<1>4. Typed'
  BY <1>1, <1>2, <1>3 DEF Typed, TypeOK
<1>5. StartInv'
  BY <1>1, OthersKeepStart
<1> QED
  BY <1>4, <1>5

LEMMA EofInv == ASSUME IInv, NEW t \in AllLinks, ThreadEof(t) PROVE IInv'
<1> USE LinkFacts DEF IInv, ThreadEof, Reading, driver, remote, wires
<1>1. Typed'
  BY DEF Typed, TypeOK
<1>2. StartInv'
  BY OthersKeepStart
<1> QED
  BY <1>1, <1>2

\* An answer is a packet like the one it answers, but longer.
LEMMA AnswerType ==
  ASSUME NEW p \in Packet, ~TooLarge(p)
  PROVE  /\ [p EXCEPT !.size = @ + Hello] \in Packet
         /\ [p EXCEPT !.size = @ + Hello].flag = p.flag
<1>1. p.size \in Sizes
  BY DEF Packet
<1>2. p.size + Hello \in Sizes
  BY <1>1, SMT DEF TooLarge, Sizes, Hello, MAX_PACKET_SIZE
<1> QED
  BY <1>2 DEF Packet

\* The application reads; what it answers is a packet.
LEMMA AppReadType ==
  ASSUME IInv, NEW read \in Reads(to_app), AppRead(read)
  PROVE  /\ to_app' \in Seq(Packet) /\ cut' \in BOOLEAN
         /\ ~TooLarge(Head(read.taken)) => Answered(Head(read.taken)) \in [AllLinks -> Seq(Packet)]
         /\ [incoming EXCEPT ![APP_LINK] = incoming[APP_LINK] \o read.taken]
              \in [AllLinks -> Seq(Packet)]
<1> DEFINE p == Head(read.taken)
<1>1. /\ to_app \in Seq(Packet) /\ incoming \in [AllLinks -> Seq(Packet)]
      /\ APP_LINK \in AllLinks /\ incoming[APP_LINK] \in Seq(Packet)
  BY LinkFacts DEF IInv, Typed, TypeOK
<1>2. read.rest \in Seq(Packet) /\ read.taken \in Seq(Packet) /\ p \in Packet
  BY <1>1, ReadType
<1> HIDE DEF p
<1>3. cut' \in BOOLEAN
  BY Zenon DEF AppRead
<1>5. ~TooLarge(p) => Answered(p) \in [AllLinks -> Seq(Packet)]
  <2> DEFINE q == [p EXCEPT !.size = @ + Hello]
  <2> SUFFICES ASSUME ~TooLarge(p) PROVE Answered(p) \in [AllLinks -> Seq(Packet)]
    OBVIOUS
  <2>1. q \in Packet /\ Answered(p) = [incoming EXCEPT ![APP_LINK] = Append(@, q)]
    BY <1>2, AnswerType DEF Answered
  <2> HIDE DEF q
  <2>2. Append(incoming[APP_LINK], q) \in Seq(Packet)
    BY <1>1, <2>1, AppendProperties
  <2> QED
    BY <1>1, <2>1, <2>2
<1>6. incoming[APP_LINK] \o read.taken \in Seq(Packet)
  BY <1>1, <1>2, ConcatProperties
<1> QED
  BY <1>1, <1>2, <1>3, <1>5, <1>6 DEF AppRead, p

LEMMA AppInv == ASSUME IInv, App PROVE IInv'
<1> USE LinkFacts DEF IInv, driver, remote
<1>1. UNCHANGED <<main, links_yet_inactive, link_sockets, thread>>
  BY DEF App, AppAccept, AppAnswer, AppCrash, AppEnd, AppEof
<1>2. StartInv'
  BY <1>1, OthersKeepStart
<1>3. CASE AppAccept \/ AppEof
  BY <1>2, <1>3 DEF AppAccept, AppEof, Typed, TypeOK, wires
<1>4. CASE AppAnswer \/ AppCrash \/ AppEnd
  <2>1. PICK read \in Reads(to_app) :
          /\ AppRead(read)
          /\ \/ incoming' = incoming
             \/ ~TooLarge(Head(read.taken)) /\ incoming' = Answered(Head(read.taken))
             \/ incoming' = [incoming EXCEPT ![APP_LINK] = incoming[APP_LINK] \o read.taken]
          /\ app' \in {app, "failed"} \cup Flags
          /\ closed' = closed \/ closed' = closed \cup {APP_LINK}
          /\ UNCHANGED <<driver, router, remote, answers, prompt>>
    BY <1>4 DEF AppAnswer, AppCrash, AppEnd
  <2>2. incoming' \in [AllLinks -> Seq(Packet)] /\ to_app' \in Seq(Packet) /\ cut' \in BOOLEAN
    <3>1. incoming \in [AllLinks -> Seq(Packet)]
      BY DEF Typed, TypeOK
    <3>2. /\ to_app' \in Seq(Packet) /\ cut' \in BOOLEAN
          /\ ~TooLarge(Head(read.taken)) => Answered(Head(read.taken)) \in [AllLinks -> Seq(Packet)]
          /\ [incoming EXCEPT ![APP_LINK] = incoming[APP_LINK] \o read.taken]
               \in [AllLinks -> Seq(Packet)]
      BY <2>1, AppReadType
    <3> QED
      BY <2>1, <3>1, <3>2, Zenon
  <2>3. Typed'
    BY <2>1, <2>2 DEF Typed, TypeOK
  <2> QED
    BY <1>2, <2>3
<1> QED
  BY <1>3, <1>4 DEF App

LEMMA NetsimInv ==
  ASSUME IInv, Netsim \/ \E l \in Links : NetsimAbort(l)
  PROVE  IInv'
<1> USE LinkFacts DEF IInv, driver, remote, wires
<1>1. UNCHANGED <<main, links_yet_inactive, link_sockets, thread>>
  BY DEF Netsim, NetsimAccept, NetsimSend, NetsimReport, NetsimTell, NetsimClose, NetsimAbort
<1>2. StartInv'
  BY <1>1, OthersKeepStart
<1>3. CASE NetsimAccept \/ NetsimReport
  BY <1>2, <1>3 DEF NetsimAccept, NetsimReport, Typed, TypeOK
<1>4. CASE NetsimSend
  <2>1. Tests[netsim.test].link \in AllLinks /\ netsim.test + 1 \in 1 .. Len(Tests) + 1
    BY <1>4 DEF NetsimSend
  <2>2. Data(netsim.test) \in Packet
    BY <1>4, SentType DEF NetsimSend
  <2>3. incoming' \in [AllLinks -> Seq(Packet)]
    BY <1>4, <2>1, <2>2 DEF NetsimSend, Typed, TypeOK
  <2>4. Typed'
    BY <1>4, <2>1, <2>3 DEF NetsimSend, Typed, TypeOK
  <2> QED
    BY <1>2, <2>4
<1>5. CASE \E l \in Links : NetsimTell(l) \/ NetsimClose(l)
  <2>1. PICK l \in Links : NetsimTell(l) \/ NetsimClose(l)
    BY <1>5
  <2>2. CASE NetsimClose(l)
    BY <1>2, <2>2 DEF NetsimClose, Typed, TypeOK
  <2>3. CASE NetsimTell(l)
    <3>1. Final(verdict) \in Packet
      BY <2>3, SentType DEF NetsimTell, Typed
    <3>2. incoming' \in [AllLinks -> Seq(Packet)]
      BY <2>3, <3>1 DEF NetsimTell, Typed, TypeOK
    <3>3. Typed'
      BY <2>3, <3>2 DEF NetsimTell, Typed, TypeOK
    <3> QED
      BY <1>2, <3>3
  <2> QED
    BY <2>1, <2>2, <2>3
<1>6. CASE \E l \in Links : NetsimAbort(l)
  BY <1>2, <1>6 DEF NetsimAbort, Typed, TypeOK
<1> QED
  BY <1>3, <1>4, <1>5, <1>6 DEF Netsim

-----------------------------------------------------------------------------
\* So IInv is inductive.
LEMMA NextInv == ASSUME IInv, [Next]_vars PROVE IInv'
<1>1. CASE Next
  BY <1>1, ConnectInv, StoreInv, CreateInv, CountInv, JoinInv, TellInv, EndOfMainInv,
     PassInv, EndInv, RouteInv, ReturnInv, EofInv, AppInv, NetsimInv
     DEF Next, Main, Thread
<1>2. CASE UNCHANGED vars
  BY <1>2 DEF vars, driver, remote, wires, IInv, Typed, TypeOK, StartInv, Counted, CountOfCounted
<1> QED
  BY <1>1, <1>2

LEMMA Invariant == Spec => []IInv
<1> QED
  BY InitInv, NextInv, PTL DEF Spec

\* The state of router, application and netsim stays well typed.
THEOREM TypeCorrect == Spec => []TypeOK
<1>1. IInv => TypeOK
  BY DEF IInv, Typed
<1> QED
  BY <1>1, Invariant, PTL

\* However main(), the threads and netsim interleave, no thread reads a
\* socket before main() has stored all of them.
THEOREM SocketsAlwaysReady == Spec => []SocketsReady
<1>1. IInv => SocketsReady
  BY LinkFacts DEF IInv, Typed, TypeOK, StartInv, Counted, SocketsReady
<1> QED
  BY <1>1, Invariant, PTL

-----------------------------------------------------------------------------
(* The verdict, on its way from netsim to main(), the application and back. *)

\* The packets that carry the flag f or none.
PacketsWith(f) == {p \in Packet : p.flag \in {"none", f}}

Joined == {"tell", "join_app", "results", "done"}
Told   == {"join_app", "results", "done"}

\* Links carry netsim's verdict, and their threads end with it.
LinksEnd ==
  /\ verdict # "none" <=> netsim.pc = "tell"
  /\ \A l \in Links : incoming[l] \in Seq(PacketsWith(verdict))
  /\ \A l \in Links : thread[l] \in Flags => thread[l] = verdict

\* main() has an error exactly if it joined a thread and the verdict is ERR.
JoinsSoFar ==
  /\ main.pc = "join" => main.link \in Links /\ \A l \in 0 .. main.link - 1 : thread[l] \in Flags
  /\ main.pc \in Joined => \A l \in Links : thread[l] \in Flags
  /\ main.error <=> /\ verdict = "ERR"
                    /\ main.pc \in Joined \/ (main.pc = "join" /\ main.link > 0)

\* The application hears of the verdict from main(), its thread from it, and
\* main() from that thread.
AppEnds ==
  /\ to_app \in Seq(PacketsWith(IF main.pc \in Told THEN verdict ELSE "none"))
  /\ app \in Flags => app = verdict /\ main.pc \in Told
  /\ incoming[APP_LINK] \in Seq(PacketsWith(IF app \in Flags THEN verdict ELSE "none"))
  /\ thread[APP_LINK] \in Flags => app \in Flags
  /\ main.pc \in {"results", "done"} => thread[APP_LINK] \in Flags
  /\ router = "ended" => main.pc = "done"

Agreed == IInv /\ LinksEnd /\ JoinsSoFar /\ AppEnds

\* This holds as long as no recv() has ended within a packet.
VInv == IInv /\ (~cut => Agreed)
-----------------------------------------------------------------------------
\* Streams of some packets are streams of more.
LEMMA SeqMonotone ==
  ASSUME NEW S, NEW T, S \subseteq T, NEW s \in Seq(S)
  PROVE  s \in Seq(T)
OBVIOUS

\* A stream without flags may be extended by packets with any flag.
LEMMA Unflagged ==
  ASSUME NEW f
  PROVE  Seq(PacketsWith("none")) \subseteq Seq(PacketsWith(f))
<1>1. PacketsWith("none") \subseteq PacketsWith(f)
  BY DEF PacketsWith
<1> QED
  BY <1>1, SeqMonotone

\* A packet of a stream carries the flag of the stream or none.
LEMMA PacketFlag ==
  ASSUME NEW f, NEW p \in PacketsWith(f)
  PROVE  /\ p \in Packet
         /\ p.flag \in Flags => p.flag = f
         /\ p.flag = "none" => \A g : p \in PacketsWith(g)
BY DEF PacketsWith, Flags

\* A recv() that ends with a packet takes packets of the stream.
LEMMA ReadFlag ==
  ASSUME NEW f, NEW stream \in Seq(PacketsWith(f)), NEW read \in Reads(stream),
         read \notin CutReads(stream)
  PROVE  /\ read.taken \in Seq(PacketsWith(f)) /\ read.rest \in Seq(PacketsWith(f))
         /\ Head(read.taken) \in PacketsWith(f) /\ Head(read.taken) \in Packet
         /\ Head(read.taken).flag \in Flags => Head(read.taken).flag = f
         /\ Head(read.taken).flag = "none" => \A g : Head(read.taken) \in PacketsWith(g)
<1>1. read \in WholeReads(stream)
  BY DEF Reads
<1>2. /\ read.taken \in Seq(PacketsWith(f)) /\ read.rest \in Seq(PacketsWith(f))
      /\ Head(read.taken) = Head(stream) /\ Head(stream) \in PacketsWith(f)
  BY <1>1, WholeReadType
<1>3. Head(read.taken) \in PacketsWith(f)
  BY <1>2, Zenon
<1> QED
  BY <1>2, <1>3, PacketFlag

\* A thread that reads to the end of a packet.
LEMMA ReadFromFlag ==
  ASSUME IInv, ~cut', NEW t \in AllLinks, NEW read \in Reads(incoming[t]), ReadFrom(t, read)
  PROVE  /\ read \notin CutReads(incoming[t])
         /\ incoming \in [AllLinks -> Seq(Packet)]
         /\ incoming' = [incoming EXCEPT ![t] = read.rest]
BY DEF ReadFrom, IInv, Typed, TypeOK

LEMMA FinalType ==
  ASSUME NEW f \in Flags PROVE Final(f) \in PacketsWith(f)
<1>1. Final(f) \in Packet
  BY SentType
<1> QED
  BY <1>1 DEF Final, PacketsWith

\* At first nobody knows of a verdict.
LEMMA InitVerdict == Init => VInv
<1> SUFFICES ASSUME Init PROVE VInv
  OBVIOUS
<1> USE LinkFacts DEF Init, Flags
<1>1. IInv
  BY InitInv
<1>2. \A f : <<>> \in Seq(PacketsWith(f))
  OBVIOUS
<1>3. LinksEnd
  BY <1>2 DEF LinksEnd
<1>4. JoinsSoFar
  BY DEF JoinsSoFar, Joined
<1>5. AppEnds
  BY <1>2 DEF AppEnds
<1> QED
  BY <1>1, <1>3, <1>4, <1>5 DEF VInv, Agreed

\* The start of main().
LEMMA StartVerdict ==
  ASSUME Agreed, MainConnect \/ MainStore \/ MainCreate \/ MainCount
  PROVE  LinksEnd' /\ JoinsSoFar' /\ AppEnds'
<1> USE LinkFacts DEF Agreed
<1>1. /\ main.pc \in Starting
      /\ main'.error = main.error
      /\ main'.pc \in Starting \cup {"join"} /\ (main'.pc = "join" => main'.link = 0)
      /\ UNCHANGED <<router, app, netsim, verdict, incoming, to_app>>
  <2>1. CASE MainConnect \/ MainStore \/ MainCreate
    BY <2>1 DEF MainConnect, MainStore, MainCreate, Running, At, Starting, remote, wires,
                IInv, Typed, TypeOK
  <2>2. CASE MainCount
    <3>1. \/ main' = [main EXCEPT !.pc = "connect", !.link = 0]
          \/ main' = [main EXCEPT !.pc = "connect", !.link = main.link + 1]
          \/ main' = [main EXCEPT !.pc = "join", !.link = 0]
      BY <2>2 DEF MainCount, NextStage
    <3> QED
      BY <2>2, <3>1 DEF MainCount, Running, Starting, remote, wires, IInv, Typed, TypeOK
  <2> QED
    BY <2>1, <2>2
<1>2. \A t \in AllLinks : thread'[t] \notin Flags
  <2>1. \A t \in AllLinks : thread[t] \in {"none", "barrier"}
    BY <1>1 DEF IInv, StartInv
  <2>2. thread' = thread \/ thread' = [thread EXCEPT ![main.link] = "barrier"]
    BY DEF MainConnect, MainStore, MainCreate, MainCount
  <2>3. \A t \in AllLinks : thread'[t] \in {"none", "barrier"}
    BY <2>1, <2>2 DEF IInv, Typed, TypeOK
  <2> QED
    BY <2>3 DEF Flags
<1>3. LinksEnd'
  BY <1>1, <1>2 DEF LinksEnd
<1>4. JoinsSoFar'
  <2>1. main.error = FALSE /\ main'.error = FALSE
    BY <1>1 DEF JoinsSoFar, Starting, Joined, IInv, Typed, TypeOK
  <2> QED
    BY <1>1, <2>1 DEF JoinsSoFar, Starting, Joined
<1>5. AppEnds'
  BY <1>1, <1>2 DEF AppEnds, Starting, Told
<1> QED
  BY <1>3, <1>4, <1>5

\* main() takes over the verdict of the threads it joins ...
LEMMA JoinVerdict ==
  ASSUME Agreed, MainJoin
  PROVE  LinksEnd' /\ JoinsSoFar' /\ AppEnds'
<1> USE LinkFacts DEF Agreed
<1> DEFINE error == main.error \/ thread[main.link] = "ERR"
<1>1. /\ main.pc = "join" /\ main.link \in Links /\ thread[main.link] \in Flags
      /\ UNCHANGED <<router, app, netsim, verdict, incoming, to_app, thread>>
  BY DEF MainJoin, Running, JoinsSoFar, remote, wires
<1>2. thread[main.link] = verdict
  BY <1>1 DEF LinksEnd
<1>3. error <=> verdict = "ERR"
  BY <1>2 DEF JoinsSoFar
<1>4. main' = IF JoinsLeft THEN [main EXCEPT !.link = main.link + 1, !.error = error]
                           ELSE [main EXCEPT !.pc = "tell", !.error = error]
  BY Zenon DEF MainJoin
<1>5. /\ error \in BOOLEAN
      /\ main \in [pc : {"join"}, link : AllLinks, error : BOOLEAN]
  BY <1>1 DEF IInv, Typed, TypeOK
<1> HIDE DEF error
<1>6. /\ main'.error = error
      /\ JoinsLeft => main'.pc = "join" /\ main'.link = main.link + 1
      /\ ~JoinsLeft => main'.pc = "tell"
  BY <1>4, <1>5
<1>7. JoinsSoFar'
  <2>1. \A l \in 0 .. main.link : thread'[l] \in Flags
    BY <1>1 DEF JoinsSoFar
  <2>2. main'.error <=> verdict' = "ERR"
    BY <1>1, <1>3, <1>6
  <2>3. CASE JoinsLeft
    BY <1>1, <1>6, <2>1, <2>2, <2>3 DEF JoinsSoFar, Joined, JoinsLeft
  <2>4. CASE ~JoinsLeft
    <3>1. main.link = NETSIM_LINK_COUNT - 1
      BY <1>1, <2>4 DEF JoinsLeft
    <3> QED
      BY <1>6, <2>1, <2>2, <2>4, <3>1 DEF JoinsSoFar, Joined
  <2> QED
    BY <2>3, <2>4
<1>8. LinksEnd'
  BY <1>1 DEF LinksEnd
<1>9. AppEnds'
  BY <1>1, <1>6 DEF AppEnds, Told
<1> QED
  BY <1>7, <1>8, <1>9

\* main() passes on the verdict, which is known as a link has ended.
LEMMA TellVerdict ==
  ASSUME Agreed, MainTell
  PROVE  LinksEnd' /\ JoinsSoFar' /\ AppEnds'
<1> USE LinkFacts DEF Agreed
<1>1. /\ main.pc = "tell" /\ UNCHANGED <<app, netsim, verdict, incoming, thread>>
      /\ \/ /\ main' = [main EXCEPT !.pc = "join_app"] /\ router' = router
            /\ to_app' = Append(to_app, Final(IF main.error THEN "ERR" ELSE "END"))
         \/ router' = "failed" /\ UNCHANGED <<main, to_app>>
  BY DEF MainTell, Running, At, remote
<1>2. CASE router' = "failed" /\ UNCHANGED <<main, to_app>>
  BY <1>1, <1>2 DEF LinksEnd, JoinsSoFar, AppEnds
<1>3. CASE /\ main' = [main EXCEPT !.pc = "join_app"] /\ router' = router
           /\ to_app' = Append(to_app, Final(IF main.error THEN "ERR" ELSE "END"))
  <2>1. verdict \in Flags
    BY <1>1 DEF JoinsSoFar, LinksEnd, Joined
  <2>2. verdict = IF main.error THEN "ERR" ELSE "END"
    BY <1>1, <2>1 DEF JoinsSoFar, Joined, Flags
  <2>3. main'.pc = "join_app" /\ main'.error = main.error
    BY <1>3 DEF IInv, Typed, TypeOK
  <2>4. LinksEnd'
    BY <1>1 DEF LinksEnd
  <2>5. JoinsSoFar'
    BY <1>1, <2>3 DEF JoinsSoFar, Joined
  <2>6. AppEnds'
    <3>1. to_app \in Seq(PacketsWith("none"))
      BY <1>1 DEF AppEnds, Told
    <3>2. to_app \in Seq(PacketsWith(verdict))
      BY <3>1, Unflagged
    <3>3. to_app' = Append(to_app, Final(verdict)) /\ Final(verdict) \in PacketsWith(verdict)
      BY <1>3, <2>1, <2>2, FinalType
    <3>4. to_app' \in Seq(PacketsWith(verdict))
      BY <3>2, <3>3, AppendProperties
    <3> QED
      BY <1>1, <1>3, <2>3, <3>4 DEF AppEnds, Told
  <2> QED
    BY <2>4, <2>5, <2>6
<1> QED
  BY <1>1, <1>2, <1>3

\* ... waits for the application's thread, and for netsim's results.
LEMMA EndOfMainVerdict ==
  ASSUME Agreed, MainJoinApp \/ MainResults
  PROVE  LinksEnd' /\ JoinsSoFar' /\ AppEnds'
<1> USE LinkFacts DEF Agreed
<1>1. /\ \/ /\ main.pc = "join_app" /\ main' = [main EXCEPT !.pc = "results"]
            /\ thread[APP_LINK] \in Flags /\ router' = router
         \/ /\ main.pc = "results" /\ main' = [main EXCEPT !.pc = "done"] /\ router' = "ended"
      /\ router = "running"
      /\ UNCHANGED <<app, netsim, verdict, incoming, to_app, thread>>
  BY DEF MainJoinApp, MainResults, Running, At, remote, wires
<1>2. main'.error = main.error /\ (main'.pc = "results" \/ main'.pc = "done")
      /\ (router' = "ended" => main'.pc = "done")
  BY <1>1 DEF IInv, Typed, TypeOK
<1>3. LinksEnd'
  BY <1>1 DEF LinksEnd
<1>4. JoinsSoFar'
  BY <1>1, <1>2 DEF JoinsSoFar, Joined
<1>5. AppEnds'
  BY <1>1, <1>2 DEF AppEnds, Told
<1> QED
  BY <1>3, <1>4, <1>5

\* A thread ends with the flag of the first packet it reads.
LEMMA EndVerdict ==
  ASSUME Agreed, ~cut', NEW t \in AllLinks, ThreadEnd(t)
  PROVE  LinksEnd' /\ JoinsSoFar' /\ AppEnds'
<1> USE LinkFacts DEF Agreed
<1>1. PICK read \in Reads(incoming[t]) :
        /\ ReadFrom(t, read) /\ Head(read.taken).flag \in Flags
        /\ thread' = [thread EXCEPT ![t] = Head(read.taken).flag]
        /\ UNCHANGED <<main, router, app, netsim, verdict, to_app>>
  BY DEF ThreadEnd, remote
<1>2. /\ read \notin CutReads(incoming[t])
      /\ incoming \in [AllLinks -> Seq(Packet)]
      /\ incoming' = [incoming EXCEPT ![t] = read.rest]
      /\ thread \in [AllLinks -> {"none", "barrier", "read"} \cup Flags]
  BY <1>1, ReadFromFlag DEF IInv, Typed, TypeOK
<1>3. JoinsSoFar'
  BY <1>1, <1>2 DEF JoinsSoFar
<1>4. CASE t \in Links
  <2>1. incoming[t] \in Seq(PacketsWith(verdict)) /\ t # APP_LINK
    BY <1>4 DEF LinksEnd, APP_LINK
  <2>2. read.rest \in Seq(PacketsWith(verdict)) /\ Head(read.taken).flag = verdict
    BY <1>1, <1>2, <2>1, ReadFlag
  <2>3. LinksEnd'
    BY <1>1, <1>2, <2>2 DEF LinksEnd
  <2>4. AppEnds'
    BY <1>1, <1>2, <2>1 DEF AppEnds
  <2> QED
    BY <1>3, <2>3, <2>4
<1>5. CASE t \notin Links
  <2>1. t = APP_LINK /\ APP_LINK \notin Links
    BY <1>5 DEF APP_LINK
  <2> DEFINE f == IF app \in Flags THEN verdict ELSE "none"
  <2>2. incoming[t] \in Seq(PacketsWith(f))
    BY <2>1 DEF AppEnds
  <2>3. read.rest \in Seq(PacketsWith(f)) /\ Head(read.taken).flag = f
    BY <1>1, <1>2, <2>2, ReadFlag
  <2>4. app \in Flags
    BY <1>1, <2>3 DEF Flags
  <2>5. LinksEnd'
    BY <1>1, <1>2, <2>1 DEF LinksEnd
  <2>6. AppEnds'
    BY <1>1, <1>2, <2>1, <2>3, <2>4 DEF AppEnds
  <2> QED
    BY <1>3, <2>5, <2>6
<1> QED
  BY <1>4, <1>5

\* A thread that has yet to read has not ended.
LEMMA PassVerdict ==
  ASSUME Agreed, NEW t \in AllLinks, ThreadPass(t) \/ ThreadEof(t)
  PROVE  LinksEnd' /\ JoinsSoFar' /\ AppEnds'
<1> USE LinkFacts DEF Agreed
<1>1. /\ \A l \in AllLinks :
           thread'[l] = thread[l] \/ (thread[l] = "barrier" /\ thread'[l] = "read")
      /\ router' = router \/ router' = "failed"
      /\ UNCHANGED <<main, app, netsim, verdict, incoming, to_app>>
  <2>1. CASE ThreadPass(t)
    BY <2>1 DEF ThreadPass, remote, wires, IInv, Typed, TypeOK
  <2>2. CASE ThreadEof(t)
    BY <2>2 DEF ThreadEof, driver, remote, wires
  <2> QED
    BY <2>1, <2>2
<1>2. \A l \in AllLinks : (thread[l] \in Flags <=> thread'[l] \in Flags)
                          /\ (thread[l] \in Flags => thread'[l] = thread[l])
  BY <1>1 DEF Flags
<1>3. LinksEnd'
  BY <1>1, <1>2 DEF LinksEnd
<1>4. JoinsSoFar'
  BY <1>1, <1>2 DEF JoinsSoFar
<1>5. AppEnds'
  BY <1>1, <1>2 DEF AppEnds
<1> QED
  BY <1>3, <1>4, <1>5

\* Only packets without a flag go from link to link.
LEMMA RouteVerdict ==
  ASSUME Agreed, ~cut', NEW t \in Links, ThreadRoute(t)
  PROVE  LinksEnd' /\ JoinsSoFar' /\ AppEnds'
<1> USE LinkFacts DEF Agreed
<1>1. PICK read \in Reads(incoming[t]) :
        /\ ReadFrom(t, read) /\ Head(read.taken).flag = "none"
        /\ to_app' = to_app \/ to_app' = Append(to_app, Head(read.taken))
        /\ router' = router \/ router' = "failed"
        /\ UNCHANGED <<main, thread, app, netsim, verdict>>
  BY DEF ThreadRoute, SendOn, driver, remote
<1>2. /\ read \notin CutReads(incoming[t])
      /\ incoming \in [AllLinks -> Seq(Packet)]
      /\ incoming' = [incoming EXCEPT ![t] = read.rest]
  BY <1>1, ReadFromFlag
<1>3. incoming[t] \in Seq(PacketsWith(verdict)) /\ t # APP_LINK
  BY DEF LinksEnd, APP_LINK
<1>4. read.rest \in Seq(PacketsWith(verdict)) /\ \A g : Head(read.taken) \in PacketsWith(g)
  BY <1>1, <1>2, <1>3, ReadFlag
<1>5. LinksEnd'
  BY <1>1, <1>2, <1>4 DEF LinksEnd
<1>6. JoinsSoFar'
  BY <1>1 DEF JoinsSoFar
<1>7. AppEnds'
  <2> DEFINE f == IF main.pc \in Told THEN verdict ELSE "none"
  <2>1. to_app \in Seq(PacketsWith(f)) /\ Head(read.taken) \in PacketsWith(f)
    BY <1>4 DEF AppEnds
  <2> HIDE DEF f
  <2>2. to_app' \in Seq(PacketsWith(f))
    <3>1. Append(to_app, Head(read.taken)) \in Seq(PacketsWith(f))
      BY <2>1, AppendProperties
    <3> QED
      BY <1>1, <2>1, <3>1
  <2>3. incoming'[APP_LINK] = incoming[APP_LINK]
    BY <1>1, <1>2, <1>3
  <2> QED
    BY <1>1, <2>2, <2>3 DEF AppEnds, f
<1> QED
  BY <1>5, <1>6, <1>7

\* Answers carry no verdict.
LEMMA ReturnVerdict ==
  ASSUME Agreed, ~cut', ThreadReturn
  PROVE  LinksEnd' /\ JoinsSoFar' /\ AppEnds'
<1> USE LinkFacts DEF Agreed
<1>1. PICK read \in Reads(incoming[APP_LINK]) :
        /\ ReadFrom(APP_LINK, read)
        /\ router' = router \/ router' = "failed"
        /\ UNCHANGED <<main, thread, app, netsim, verdict, to_app>>
  BY DEF ThreadReturn, SendOn, driver, remote
<1>2. /\ read \notin CutReads(incoming[APP_LINK])
      /\ incoming \in [AllLinks -> Seq(Packet)]
      /\ incoming' = [incoming EXCEPT ![APP_LINK] = read.rest]
  BY <1>1, ReadFromFlag
<1>3. APP_LINK \notin Links
  BY DEF APP_LINK
<1>4. LinksEnd'
  BY <1>1, <1>2, <1>3 DEF LinksEnd
<1>5. JoinsSoFar'
  BY <1>1 DEF JoinsSoFar
<1>6. AppEnds'
  <2> DEFINE f == IF app \in Flags THEN verdict ELSE "none"
  <2>1. incoming[APP_LINK] \in Seq(PacketsWith(f))
    BY DEF AppEnds
  <2>2. read.rest \in Seq(PacketsWith(f))
    BY <1>2, <2>1, ReadFlag
  <2> QED
    BY <1>1, <1>2, <2>2 DEF AppEnds
<1> QED
  BY <1>4, <1>5, <1>6

\* The application ends with the flag it was sent, and returns it.
LEMMA AppVerdict ==
  ASSUME Agreed, ~cut', App
  PROVE  LinksEnd' /\ JoinsSoFar' /\ AppEnds'
<1> USE LinkFacts DEF Agreed
<1> DEFINE f == IF main.pc \in Told THEN verdict ELSE "none"
<1>1. /\ UNCHANGED <<main, thread, router, netsim, verdict>>
      /\ app \in {"listen", "loop"} /\ app \notin Flags
      /\ incoming \in [AllLinks -> Seq(Packet)]
      /\ APP_LINK \notin Links
  BY DEF App, AppAccept, AppAnswer, AppCrash, AppEnd, AppEof, AppRead, driver, remote, Flags,
         IInv, Typed, TypeOK, APP_LINK
<1>2. JoinsSoFar'
  BY <1>1 DEF JoinsSoFar
<1>3. to_app \in Seq(PacketsWith(f)) /\ incoming[APP_LINK] \in Seq(PacketsWith("none"))
  BY <1>1 DEF AppEnds
<1>4. ASSUME NEW read \in Reads(to_app), AppRead(read)
      PROVE  /\ to_app' = read.rest /\ read.rest \in Seq(PacketsWith(f))
             /\ read.taken \in Seq(PacketsWith(f)) /\ Head(read.taken) \in Packet
             /\ Head(read.taken).flag \in Flags => Head(read.taken).flag = f
  <2>1. to_app' = read.rest /\ read \notin CutReads(to_app)
    BY <1>4 DEF AppRead
  <2> HIDE DEF f
  <2> QED
    BY <1>3, <2>1, ReadFlag
<1> HIDE DEF f
<1>5. CASE AppAccept \/ AppEof
  <2>1. UNCHANGED <<incoming, to_app>> /\ app' \notin Flags
    BY <1>5 DEF AppAccept, AppEof, wires, Flags
  <2> QED
    BY <1>1, <1>2, <2>1 DEF LinksEnd, AppEnds
<1>6. CASE AppAnswer \/ AppCrash
  <2>1. PICK read \in Reads(to_app) :
          /\ AppRead(read) /\ Head(read.taken).flag = "none"
          /\ app' = app \/ app' = "failed"
          /\ \/ incoming' = incoming
             \/ ~TooLarge(Head(read.taken)) /\ incoming' = Answered(Head(read.taken))
    BY <1>6 DEF AppAnswer, AppCrash
  <2> DEFINE p == Head(read.taken)
             q == [p EXCEPT !.size = @ + Hello]
  <2>2. to_app' \in Seq(PacketsWith(f)) /\ p \in Packet /\ p.flag = "none"
    BY <1>4, <2>1
  <2>3. \/ incoming' = incoming
        \/ ~TooLarge(p) /\ incoming' = [incoming EXCEPT ![APP_LINK] = Append(@, q)]
    BY <2>1 DEF Answered
  <2> HIDE DEF p
  <2>4. ~TooLarge(p) => q \in PacketsWith("none")
    BY <2>2, AnswerType DEF PacketsWith
  <2> HIDE DEF q
  <2>5. ~TooLarge(p) => Append(incoming[APP_LINK], q) \in Seq(PacketsWith("none"))
    BY <1>3, <2>4, AppendProperties
  <2>6. incoming'[APP_LINK] \in Seq(PacketsWith("none")) /\ \A l \in Links : incoming'[l] = incoming[l]
    BY <1>1, <1>3, <2>3, <2>5
  <2>7. LinksEnd'
    BY <1>1, <2>6 DEF LinksEnd
  <2>8. app' \notin Flags
    BY <1>1, <2>1 DEF Flags
  <2>9. AppEnds'
    BY <1>1, <2>2, <2>6, <2>8 DEF AppEnds, f
  <2> QED
    BY <1>2, <2>7, <2>9
<1>7. CASE AppEnd
  <2>1. PICK read \in Reads(to_app) :
          /\ AppRead(read) /\ Head(read.taken).flag \in Flags
          /\ incoming' = [incoming EXCEPT ![APP_LINK] = incoming[APP_LINK] \o read.taken]
          /\ app' = Head(read.taken).flag
    BY <1>7 DEF AppEnd
  <2>2. /\ to_app' \in Seq(PacketsWith(f)) /\ read.taken \in Seq(PacketsWith(f))
        /\ Head(read.taken).flag = f
    BY <1>4, <2>1
  <2>3. f = verdict /\ main.pc \in Told /\ app' = verdict
    BY <2>1, <2>2 DEF Flags, f
  <2>4. incoming[APP_LINK] \in Seq(PacketsWith(verdict))
    BY <1>3, Unflagged
  <2>5. read.taken \in Seq(PacketsWith(verdict))
    BY <2>2, <2>3
  <2>6. incoming[APP_LINK] \o read.taken \in Seq(PacketsWith(verdict))
    BY <2>4, <2>5, ConcatProperties
  <2>7. incoming'[APP_LINK] \in Seq(PacketsWith(verdict)) /\ \A l \in Links : incoming'[l] = incoming[l]
    BY <1>1, <2>1, <2>6
  <2>8. LinksEnd'
    BY <1>1, <2>7 DEF LinksEnd
  <2>9. AppEnds'
    BY <1>1, <2>1, <2>2, <2>3, <2>7 DEF AppEnds
  <2> QED
    BY <1>2, <2>8, <2>9
<1> QED
  BY <1>5, <1>6, <1>7 DEF App

\* netsim decides once, before it tells any link.
LEMMA NetsimVerdict ==
  ASSUME Agreed, Netsim \/ \E l \in Links : NetsimAbort(l)
  PROVE  LinksEnd' /\ JoinsSoFar' /\ AppEnds'
<1> USE LinkFacts DEF Agreed
<1>1. /\ UNCHANGED <<main, thread, router, app, to_app>>
      /\ incoming \in [AllLinks -> Seq(Packet)]
      /\ netsim \in [pc : {"accept", "test", "tell", "aborted"}, test : 1 .. Len(Tests) + 1,
                     told : SUBSET Links]
      /\ APP_LINK \notin Links
  BY DEF Netsim, NetsimAccept, NetsimSend, NetsimReport, NetsimTell, NetsimClose, NetsimAbort,
         driver, remote, wires, IInv, Typed, TypeOK, APP_LINK
<1>2. CASE NetsimReport
  <2>1. /\ verdict = "none" /\ verdict' \in Flags /\ netsim'.pc = "tell" /\ incoming' = incoming
    BY <1>1, <1>2 DEF NetsimReport, LinksEnd, wires
  <2>2. /\ \A l \in Links : thread[l] \notin Flags
        /\ app \notin Flags
    BY <2>1 DEF LinksEnd, AppEnds, Flags
  <2>3. LinksEnd'
    <3>1. \A l \in Links : incoming[l] \in Seq(PacketsWith(verdict'))
      BY <2>1, Unflagged DEF LinksEnd
    <3> QED
      BY <1>1, <2>1, <2>2, <3>1 DEF LinksEnd, Flags
  <2>4. main.pc \notin Joined /\ ~(main.pc = "join" /\ main.link > 0)
    BY <2>2 DEF JoinsSoFar
  <2>5. JoinsSoFar'
    BY <1>1, <2>1, <2>4 DEF JoinsSoFar
  <2>6. AppEnds'
    BY <1>1, <2>1, <2>2, <2>4 DEF AppEnds, Told, Joined
  <2> QED
    BY <2>3, <2>5, <2>6
<1>3. CASE NetsimAccept \/ (\E l \in Links : NetsimClose(l) \/ NetsimAbort(l))
  <2>1. UNCHANGED <<verdict, incoming>> /\ (netsim.pc = "tell" <=> netsim'.pc = "tell")
    BY <1>1, <1>3 DEF NetsimAccept, NetsimClose, NetsimAbort, remote, wires
  <2> QED
    BY <1>1, <2>1 DEF LinksEnd, JoinsSoFar, AppEnds
<1>4. CASE NetsimSend
  <2>1. UNCHANGED verdict /\ (netsim.pc = "tell" <=> netsim'.pc = "tell")
    BY <1>1, <1>4 DEF NetsimSend
  <2>2. PICK l \in Links : incoming' = [incoming EXCEPT ![l] = Append(@, Data(netsim.test))]
    BY <1>4 DEF NetsimSend
  <2>3. Data(netsim.test) \in PacketsWith(verdict)
    <3>1. Data(netsim.test) \in Packet
      BY <1>4, SentType DEF NetsimSend
    <3> QED
      BY <3>1 DEF Data, PacketsWith
  <2>4. incoming[l] \in Seq(PacketsWith(verdict))
    BY DEF LinksEnd
  <2>5. Append(incoming[l], Data(netsim.test)) \in Seq(PacketsWith(verdict))
    BY <2>3, <2>4, AppendProperties
  <2> QED
    BY <1>1, <2>1, <2>2, <2>5 DEF LinksEnd, JoinsSoFar, AppEnds
<1>5. CASE \E l \in Links : NetsimTell(l)
  <2>1. PICK l \in Links : NetsimTell(l)
    BY <1>5
  <2>2. /\ UNCHANGED verdict /\ netsim.pc = "tell" /\ netsim'.pc = "tell"
        /\ incoming' = [incoming EXCEPT ![l] = Append(@, Final(verdict))]
    BY <1>1, <2>1 DEF NetsimTell
  <2>3. verdict \in Flags
    BY <2>2 DEF IInv, Typed
  <2>4. incoming[l] \in Seq(PacketsWith(verdict)) /\ Final(verdict) \in PacketsWith(verdict)
    BY <2>3, FinalType DEF LinksEnd
  <2>5. Append(incoming[l], Final(verdict)) \in Seq(PacketsWith(verdict))
    BY <2>4, AppendProperties
  <2> QED
    BY <1>1, <2>2, <2>5 DEF LinksEnd, JoinsSoFar, AppEnds
<1> QED
  BY <1>2, <1>3, <1>4, <1>5 DEF Netsim

-----------------------------------------------------------------------------
\* Once a recv() has ended within a packet, that stays so.
LEMMA CutStays == ASSUME IInv, [Next]_vars, cut PROVE cut'
<1>1. CASE UNCHANGED vars
  BY <1>1 DEF vars
<1>2. CASE Main \/ Netsim \/ \E l \in Links : NetsimAbort(l)
  BY <1>2 DEF Main, MainConnect, MainStore, MainCreate, MainCount, MainJoin, MainTell, MainJoinApp,
     MainResults, Netsim, NetsimAccept, NetsimSend, NetsimReport, NetsimTell, NetsimClose, NetsimAbort
<1>3. CASE App
  BY <1>3 DEF App, AppAccept, AppAnswer, AppCrash, AppEnd, AppEof, AppRead
<1>4. CASE \E t \in AllLinks : Thread(t)
  BY <1>4 DEF Thread, ThreadPass, ThreadEnd, ThreadRoute, ThreadReturn, ThreadEof, ReadFrom
<1> QED
  BY <1>1, <1>2, <1>3, <1>4 DEF Next

\* So VInv is inductive.
LEMMA NextVerdict == ASSUME VInv, [Next]_vars PROVE VInv'
<1>1. IInv' /\ IInv
  BY NextInv DEF VInv
<1> SUFFICES ASSUME ~cut' PROVE Agreed'
  BY <1>1 DEF VInv
<1>2. Agreed
  BY <1>1, CutStays DEF VInv
<1>3. CASE Next
  <2>1. CASE Main
    BY <1>1, <1>2, <2>1, StartVerdict, JoinVerdict, TellVerdict, EndOfMainVerdict DEF Main, Agreed
  <2>2. CASE App \/ Netsim \/ \E l \in Links : NetsimAbort(l)
    BY <1>1, <1>2, <2>2, AppVerdict, NetsimVerdict DEF Agreed
  <2>3. CASE \E t \in AllLinks : Thread(t)
    <3>1. PICK t \in AllLinks : Thread(t)
      BY <2>3
    <3>2. ThreadRoute(t) => t \in Links
      BY DEF ThreadRoute
    <3> QED
      BY <1>1, <1>2, <3>1, <3>2, PassVerdict, EndVerdict, RouteVerdict, ReturnVerdict
         DEF Thread, Agreed
  <2> QED
    BY <1>3, <2>1, <2>2, <2>3 DEF Next
<1>4. CASE UNCHANGED vars
  BY <1>1, <1>2, <1>4 DEF vars, driver, remote, wires, Agreed, LinksEnd, JoinsSoFar, AppEnds
<1> QED
  BY <1>3, <1>4

-----------------------------------------------------------------------------
(* Prompt programs: so few packets are under way that no recv() can end     *)
(* within one.                                                              *)

\* A connection with at most one packet.
Alone(stream) == stream = <<>> \/ \E x \in Packet : stream = <<x>>

\* Only one connection has a packet until netsim tells its verdict; then only
\* this is under way.
FewPackets ==
  /\ Alone(to_app) /\ \A l \in AllLinks : Alone(incoming[l])
  /\ netsim.pc # "tell" =>
       /\ \A l, k \in AllLinks : incoming[l] # <<>> /\ incoming[k] # <<>> => l = k
       /\ \A l \in AllLinks : incoming[l] # <<>> => to_app = <<>>
  /\ netsim.pc = "tell" =>
       /\ \A l \in Links : incoming[l] # <<>> => l \in netsim.told /\ Head(incoming[l]).flag \in Flags
       /\ to_app # <<>> => main.pc \in Told /\ Head(to_app).flag \in Flags
       /\ incoming[APP_LINK] # <<>> => app \in Flags

PromptInv == prompt => ~cut /\ FewPackets

\* A packet in an empty stream makes a stream of one.
LEMMA OneInEmpty ==
  ASSUME NEW x
  PROVE  Append(<<>>, x) = <<x>> /\ <<x>> # <<>> /\ Head(<<x>>) = x
OBVIOUS

\* A packet alone is read as it is.
LEMMA BytesOfOne ==
  ASSUME NEW x, x.size \in Nat
  PROVE  BytesTo(<<x>>)[0] = 0 /\ BytesTo(<<x>>)[1] = x.size
<1> DEFINE s == <<x>>
           F(f) == [k \in 0 .. Len(s) |-> IF k = 0 THEN 0 ELSE f[k - 1] + s[k].size]
           sum == CHOOSE f : f = F(f)
           h == [k \in 0 .. 1 |-> IF k = 0 THEN 0 ELSE x.size]
<1>1. Len(s) = 1 /\ s[1] = x
  OBVIOUS
<1>2. h = F(h)
  <2>1. \A k \in 0 .. 1 : (IF k = 0 THEN 0 ELSE h[k - 1] + s[k].size) = IF k = 0 THEN 0 ELSE x.size
    BY <1>1
  <2> QED
    BY <1>1, <2>1
<1>3. sum = F(sum)
  BY <1>2
<1>4. BytesTo(<<x>>) = sum
  BY DEF BytesTo
<1> QED
  <2> HIDE DEF sum, s
  <2>1. sum = [k \in 0 .. 1 |-> IF k = 0 THEN 0 ELSE sum[k - 1] + s[k].size]
    BY <1>1, <1>3
  <2>2. sum[0] = 0 /\ sum[1] = sum[0] + x.size
    BY <1>1, <2>1
  <2> QED
    BY <1>4, <2>2

\* A packet alone is received whole.
LEMMA ReadOfOne ==
  ASSUME NEW x, x.size \in Nat, x.size <= MAX_PACKET_SIZE, NEW read \in Reads(<<x>>)
  PROVE  read.taken = <<x>> /\ read.rest = <<>> /\ read \notin CutReads(<<x>>)
<1>1. BytesTo(<<x>>)[1] = x.size /\ DOMAIN <<x>> = {1}
  BY BytesOfOne
<1> DEFINE n == x.size
           left == BytesLeft(<<x>>, 1)
<1>2. left = n - 255
  BY <1>1 DEF BytesLeft, MAX_PACKET_SIZE
<1>3. n \in Nat /\ n <= 255
  BY DEF MAX_PACKET_SIZE
<1> HIDE DEF n, left
<1>4. ~(left >= 1)
  BY <1>2, <1>3, SMT
<1>5. \A m : left \notin 1 .. m
  BY <1>4
<1>6. CutReads(<<x>>) = {}
  BY <1>1, <1>5 DEF CutReads, left
<1>7. PICK k \in DOMAIN <<x>> : read = [taken |-> Taken(<<x>>, k), rest |-> After(<<x>>, k)]
  BY <1>6 DEF Reads, WholeReads
<1>8. k = 1
  BY <1>1, <1>7
<1>9. Taken(<<x>>, 1) = <<x>> /\ After(<<x>>, 1) = <<>>
  <2> DEFINE s == <<x>>
  <2>1. s \in Seq({x}) /\ Len(s) = 1
    OBVIOUS
  <2> HIDE DEF s
  <2>2. SubSeq(s, 1, 1) = s
    BY <2>1, SubSeqFull
  <2>3. SubSeq(s, 2, 1) = <<>>
    BY SubSeqEmpty
  <2>4. Taken(s, 1) = s /\ After(s, 1) = <<>>
    BY <2>1, <2>2, <2>3 DEF Taken, After
  <2> QED
    BY <2>4 DEF s
<1> QED
  BY <1>6, <1>7, <1>8, <1>9

LEMMA ReadAlone ==
  ASSUME NEW stream, Alone(stream), NEW read \in Reads(stream)
  PROVE  \E x \in Packet : /\ stream = <<x>> /\ stream # <<>> /\ Head(stream) = x
                           /\ read.taken = <<x>> /\ Head(read.taken) = x /\ read.rest = <<>>
                           /\ read \notin CutReads(stream)
<1>1. stream # <<>>
  <2>1. DOMAIN <<>> = {}
    OBVIOUS
  <2>2. WholeReads(<<>>) = {} /\ CutReads(<<>>) = {}
    BY <2>1 DEF WholeReads, CutReads
  <2> QED
    BY <2>2 DEF Reads
<1>2. PICK x \in Packet : stream = <<x>>
  BY <1>1 DEF Alone
<1>3. x.size \in Sizes
  BY DEF Packet
<1>4. x.size \in Nat /\ x.size <= MAX_PACKET_SIZE
  BY <1>3, SMT DEF Sizes, MAX_PACKET_SIZE
<1>5. read.taken = <<x>> /\ read.rest = <<>> /\ read \notin CutReads(stream)
  BY <1>2, <1>4, ReadOfOne
<1> QED
  BY <1>1, <1>2, <1>5, OneInEmpty

\* What a thread and the application receive of a connection.
LEMMA ReadFromAlone ==
  ASSUME IInv, FewPackets, ~cut, NEW t \in AllLinks, NEW read \in Reads(incoming[t]),
         ReadFrom(t, read)
  PROVE  /\ \E x \in Packet : /\ incoming[t] = <<x>> /\ Head(incoming[t]) = x
                              /\ read.taken = <<x>> /\ Head(read.taken) = x
         /\ incoming[t] # <<>> /\ ~cut' /\ incoming \in [AllLinks -> Seq(Packet)]
         /\ \A l \in AllLinks : incoming'[l] = IF l = t THEN <<>> ELSE incoming[l]
<1>1. PICK x \in Packet : /\ incoming[t] = <<x>> /\ incoming[t] # <<>> /\ Head(incoming[t]) = x
                          /\ read.taken = <<x>> /\ Head(read.taken) = x /\ read.rest = <<>>
                          /\ read \notin CutReads(incoming[t])
  BY ReadAlone DEF FewPackets
<1>2. incoming \in [AllLinks -> Seq(Packet)]
  BY DEF IInv, Typed, TypeOK
<1>3. incoming' = [incoming EXCEPT ![t] = <<>>] /\ ~cut'
  BY <1>1 DEF ReadFrom
<1>4. \A l \in AllLinks : incoming'[l] = IF l = t THEN <<>> ELSE incoming[l]
  BY <1>2, <1>3
<1> QED
  BY <1>1, <1>2, <1>3, <1>4, Zenon

LEMMA AppReadAlone ==
  ASSUME FewPackets, ~cut, NEW read \in Reads(to_app), AppRead(read)
  PROVE  /\ \E x \in Packet : /\ to_app = <<x>> /\ Head(to_app) = x
                              /\ read.taken = <<x>> /\ Head(read.taken) = x
         /\ to_app # <<>> /\ to_app' = <<>> /\ ~cut'
<1>1. PICK x \in Packet : /\ to_app = <<x>> /\ to_app # <<>> /\ Head(to_app) = x
                          /\ read.taken = <<x>> /\ Head(read.taken) = x /\ read.rest = <<>>
                          /\ read \notin CutReads(to_app)
  BY ReadAlone DEF FewPackets
<1> QED
  BY <1>1 DEF AppRead

LEMMA InitPrompt == Init => PromptInv
BY LinkFacts DEF Init, PromptInv, FewPackets, Alone

\* Packets may disappear.
LEMMA FewerPackets ==
  ASSUME FewPackets, netsim' = netsim, to_app' \in {to_app, <<>>},
         \A l \in AllLinks : incoming'[l] \in {incoming[l], <<>>},
         main.pc \in Told => main'.pc \in Told, app \in Flags => app' \in Flags
  PROVE  FewPackets'
<1> USE LinkFacts
<1>1. Alone(<<>>)
  BY DEF Alone
<1>2. Alone(to_app)' /\ \A l \in AllLinks : Alone(incoming'[l])
  <2>1. \A s : s = to_app \/ s = <<>> => Alone(s)
    BY <1>1 DEF FewPackets
  <2>2. \A l \in AllLinks : \A s : s = incoming[l] \/ s = <<>> => Alone(s)
    BY <1>1 DEF FewPackets
  <2>3. Alone(to_app)'
    BY <2>1 DEF Alone
  <2> QED
    BY <2>2, <2>3
<1>3. netsim.pc # "tell" =>
        /\ \A l, k \in AllLinks : incoming'[l] # <<>> /\ incoming'[k] # <<>> => l = k
        /\ \A l \in AllLinks : incoming'[l] # <<>> => to_app' = <<>>
  BY DEF FewPackets
<1>4. ASSUME netsim.pc = "tell"
      PROVE  /\ \A l \in Links : incoming'[l] # <<>> => l \in netsim.told /\ Head(incoming'[l]).flag \in Flags
             /\ to_app' # <<>> => main'.pc \in Told /\ Head(to_app').flag \in Flags
             /\ incoming'[APP_LINK] # <<>> => app' \in Flags
  BY <1>4 DEF FewPackets
<1> QED
  BY <1>2, <1>3, <1>4 DEF FewPackets

\* A packet is handed on from one connection to another.
LEMMA PacketMoves ==
  ASSUME FewPackets, netsim' = netsim, netsim.pc # "tell", Alone(to_app'),
         NEW t \in AllLinks,
         \A l \in AllLinks : l # t => incoming'[l] = <<>>, Alone(incoming'[t]),
         incoming'[t] = <<>> \/ to_app' = <<>>
  PROVE  FewPackets'
<1>1. \A l \in AllLinks : Alone(incoming'[l])
  BY DEF Alone
<1>2. Alone(to_app)'
  BY DEF Alone
<1> QED
  BY <1>1, <1>2 DEF FewPackets

\* The programs, and then netsim.
LEMMA MainPrompt ==
  ASSUME VInv, PromptInv, prompt, Main
  PROVE  ~cut' /\ FewPackets'
<1>1. IInv /\ Agreed /\ ~cut /\ FewPackets
  BY DEF VInv, PromptInv
<1>2. CASE Main /\ ~MainTell
  <2>1. /\ netsim' = netsim /\ to_app' = to_app /\ incoming' = incoming /\ app' = app /\ cut' = cut
        /\ main.pc \in Told => main'.pc \in Told
    <3>1. CASE MainConnect \/ MainStore \/ MainCreate \/ MainCount \/ MainJoin
      BY <3>1 DEF MainConnect, MainStore, MainCreate, MainCount, MainJoin, Running, Told, remote, wires
    <3>2. CASE MainJoinApp \/ MainResults
      <4>1. main \in [pc : {"connect", "store", "create", "count", "join", "tell", "join_app",
                            "results", "done"}, link : AllLinks, error : BOOLEAN]
        BY <1>1 DEF IInv, Typed, TypeOK
      <4> QED
        BY <3>2, <4>1 DEF MainJoinApp, MainResults, At, Told, remote, wires
    <3> QED
      BY <1>2, <3>1, <3>2 DEF Main
  <2> QED
    BY <1>1, <2>1, FewerPackets
<1>3. CASE MainTell
  <2>1. /\ main.pc = "tell" /\ UNCHANGED <<app, netsim, incoming, cut>>
        /\ \/ /\ main' = [main EXCEPT !.pc = "join_app"]
              /\ to_app' = Append(to_app, Final(IF main.error THEN "ERR" ELSE "END"))
           \/ UNCHANGED <<main, to_app>>
    BY <1>3 DEF MainTell, Running, At, remote
  <2>2. CASE UNCHANGED <<main, to_app>>
    BY <1>1, <2>1, <2>2, FewerPackets
  <2>3. CASE /\ main' = [main EXCEPT !.pc = "join_app"]
             /\ to_app' = Append(to_app, Final(IF main.error THEN "ERR" ELSE "END"))
    <3>1. netsim.pc = "tell"
      <4>1. \A l \in Links : thread[l] \in Flags
        BY <1>1, <2>1 DEF Agreed, JoinsSoFar, Joined
      <4>2. verdict # "none"
        BY <1>1, <4>1, LinkFacts DEF Agreed, LinksEnd, Flags
      <4> QED
        BY <1>1, <4>2 DEF Agreed, LinksEnd
    <3>2. to_app = <<>> /\ incoming[APP_LINK] = incoming'[APP_LINK]
      BY <1>1, <2>1, <3>1 DEF FewPackets, Told
    <3> DEFINE f == IF main.error THEN "ERR" ELSE "END"
               x == Final(f)
    <3>3. x \in Packet /\ x.flag \in Flags
      BY SentType DEF Final, Flags
    <3> HIDE DEF x
    <3>4. to_app' = <<x>> /\ to_app' # <<>> /\ Head(to_app') = x
      <4>1. to_app' = Append(<<>>, x)
        BY <2>3, <3>2 DEF x
      <4> QED
        BY <4>1, OneInEmpty
    <3>5. main'.pc = "join_app"
      BY <1>1, <2>3 DEF IInv, Typed, TypeOK
    <3>6. Alone(to_app)'
      BY <3>3, <3>4 DEF Alone
    <3>7. \A l \in AllLinks : Alone(incoming'[l])
      BY <1>1, <2>1 DEF FewPackets
    <3> QED
      BY <1>1, <2>1, <3>1, <3>3, <3>4, <3>5, <3>6, <3>7 DEF FewPackets, Told
  <2> QED
    BY <2>1, <2>2, <2>3
<1> QED
  BY <1>2, <1>3

LEMMA ThreadPrompt ==
  ASSUME VInv, PromptInv, prompt, NEW t \in AllLinks, Thread(t)
  PROVE  ~cut' /\ FewPackets'
<1>1. IInv /\ ~cut /\ FewPackets
  BY DEF VInv, PromptInv
<1>2. CASE ThreadPass(t) \/ ThreadEof(t)
  <2>1. UNCHANGED <<netsim, to_app, incoming, app, main, cut>>
    BY <1>2 DEF ThreadPass, ThreadEof, driver, remote, wires
  <2> QED
    BY <1>1, <2>1, FewerPackets
<1>3. CASE ThreadEnd(t) \/ (t = APP_LINK /\ ThreadReturn)
  <2>1. PICK read \in Reads(incoming[t]) :
          ReadFrom(t, read) /\ UNCHANGED <<netsim, to_app, app, main>>
    BY <1>3 DEF ThreadEnd, ThreadReturn, driver, remote
  <2>2. ~cut' /\ \A l \in AllLinks : incoming'[l] = IF l = t THEN <<>> ELSE incoming[l]
    BY <1>1, <2>1, ReadFromAlone
  <2> QED
    BY <1>1, <2>1, <2>2, FewerPackets
<1>4. CASE ThreadRoute(t)
  <2>1. PICK read \in Reads(incoming[t]) :
          /\ ReadFrom(t, read) /\ Head(read.taken).flag = "none" /\ t \in Links
          /\ to_app' = to_app \/ to_app' = Append(to_app, Head(read.taken))
          /\ UNCHANGED <<netsim, app, main>>
    BY <1>4 DEF ThreadRoute, driver, remote
  <2>2. /\ ~cut' /\ incoming[t] # <<>>
        /\ \A l \in AllLinks : incoming'[l] = IF l = t THEN <<>> ELSE incoming[l]
        /\ Head(incoming[t]) = Head(read.taken) /\ Head(read.taken) \in Packet
    BY <1>1, <2>1, ReadFromAlone
  <2>3. netsim.pc # "tell"
    BY <1>1, <2>1, <2>2 DEF FewPackets, Flags
  <2>4. to_app = <<>> /\ \A l \in AllLinks : incoming'[l] = <<>>
    BY <1>1, <2>2, <2>3 DEF FewPackets
  <2> DEFINE x == Head(read.taken)
  <2> HIDE DEF x
  <2>5. to_app' = <<>> \/ to_app' = <<x>>
    BY <2>1, <2>4, OneInEmpty DEF x
  <2>6. Alone(to_app') /\ Alone(incoming'[t])
    BY <2>2, <2>4, <2>5 DEF Alone, x
  <2> QED
    BY <1>1, <2>1, <2>2, <2>3, <2>4, <2>6, PacketMoves
<1> QED
  BY <1>2, <1>3, <1>4 DEF Thread

LEMMA AppPrompt ==
  ASSUME VInv, PromptInv, prompt, App
  PROVE  ~cut' /\ FewPackets'
<1>1. IInv /\ ~cut /\ FewPackets /\ APP_LINK \in AllLinks /\ incoming \in [AllLinks -> Seq(Packet)]
  BY LinkFacts DEF VInv, PromptInv, IInv, Typed, TypeOK
<1>2. app \notin Flags /\ UNCHANGED <<netsim, main>>
  BY DEF App, AppAccept, AppAnswer, AppCrash, AppEnd, AppEof, AppRead, driver, remote, Flags
<1>3. CASE AppAccept \/ AppEof
  <2>1. UNCHANGED <<incoming, to_app, cut>>
    BY <1>3 DEF AppAccept, AppEof, wires
  <2>2. FewPackets'
    BY <1>1, <1>2, <2>1, FewerPackets
  <2> QED
    BY <1>1, <2>1, <2>2
<1>4. CASE AppAnswer \/ AppCrash
  <2>1. PICK read \in Reads(to_app) :
          /\ AppRead(read) /\ Head(read.taken).flag = "none"
          /\ \/ incoming' = incoming
             \/ ~TooLarge(Head(read.taken)) /\ incoming' = Answered(Head(read.taken))
    BY <1>4 DEF AppAnswer, AppCrash
  <2> DEFINE p == Head(read.taken)
             q == [p EXCEPT !.size = @ + Hello]
  <2>2. to_app # <<>> /\ to_app' = <<>> /\ ~cut' /\ Head(to_app) = p /\ p \in Packet
    BY <1>1, <2>1, AppReadAlone
  <2>3. netsim.pc # "tell"
    BY <1>1, <2>1, <2>2 DEF FewPackets, Flags
  <2>4. \A l \in AllLinks : incoming[l] = <<>>
    BY <1>1, <2>2, <2>3 DEF FewPackets
  <2>5. \/ incoming' = incoming
        \/ ~TooLarge(p) /\ incoming' = [incoming EXCEPT ![APP_LINK] = Append(@, q)]
    BY <2>1 DEF Answered
  <2> HIDE DEF p
  <2>6. ~TooLarge(p) => q \in Packet
    BY <2>2, AnswerType
  <2> HIDE DEF q
  <2>7. Append(incoming[APP_LINK], q) = <<q>>
    BY <1>1, <2>4, OneInEmpty
  <2>8. /\ \A l \in AllLinks : l # APP_LINK => incoming'[l] = <<>>
        /\ incoming'[APP_LINK] = <<>> \/ (q \in Packet /\ incoming'[APP_LINK] = <<q>>)
    BY <1>1, <2>4, <2>5, <2>6, <2>7
  <2>9. Alone(incoming'[APP_LINK]) /\ Alone(to_app')
    BY <2>2, <2>8 DEF Alone
  <2> QED
    BY <1>1, <1>2, <2>2, <2>3, <2>8, <2>9, PacketMoves
<1>5. CASE AppEnd
  <2>1. PICK read \in Reads(to_app) :
          /\ AppRead(read) /\ Head(read.taken).flag \in Flags
          /\ incoming' = [incoming EXCEPT ![APP_LINK] = incoming[APP_LINK] \o read.taken]
          /\ app' = Head(read.taken).flag
    BY <1>5 DEF AppEnd
  <2>2. PICK x \in Packet : to_app = <<x>> /\ Head(to_app) = x /\ read.taken = <<x>> /\ Head(read.taken) = x
    BY <1>1, <2>1, AppReadAlone
  <2>3. to_app # <<>> /\ to_app' = <<>> /\ ~cut' /\ app' \in Flags
    BY <1>1, <2>1, AppReadAlone
  <2>4. incoming[APP_LINK] = <<>>
    BY <1>1, <1>2, <2>3 DEF FewPackets
  <2>5. <<>> \o <<x>> = <<x>> /\ <<x>> # <<>>
    OBVIOUS
  <2>6. incoming' = [incoming EXCEPT ![APP_LINK] = <<x>>]
    BY <2>1, <2>2, <2>4, <2>5
  <2>7. /\ incoming'[APP_LINK] = <<x>>
        /\ \A l \in AllLinks : l # APP_LINK => incoming'[l] = incoming[l]
    BY <1>1, <2>6
  <2>8. Alone(incoming'[APP_LINK]) /\ Alone(to_app')
    BY <2>3, <2>7 DEF Alone
  <2>9. CASE netsim.pc # "tell"
    <3>1. \A l \in AllLinks : l # APP_LINK => incoming'[l] = <<>>
      BY <1>1, <2>3, <2>7, <2>9 DEF FewPackets
    <3> QED
      BY <1>1, <1>2, <2>3, <2>8, <2>9, <3>1, PacketMoves
  <2>10. CASE netsim.pc = "tell"
    <3>1. APP_LINK \notin Links /\ Links \subseteq AllLinks
      BY LinkFacts DEF APP_LINK
    <3>2. \A l \in AllLinks : Alone(incoming'[l])
      <4>1. \A l \in AllLinks : l # APP_LINK => Alone(incoming'[l])
        BY <1>1, <2>7 DEF FewPackets
      <4> QED
        BY <2>8, <4>1
    <3>3. Alone(to_app)'
      BY <2>8 DEF Alone
    <3>4. netsim'.pc = "tell" /\ netsim'.told = netsim.told
      BY <1>2, <2>10
    <3>5. \A l \in Links : incoming'[l] # <<>> => l \in netsim.told /\ Head(incoming'[l]).flag \in Flags
      BY <1>1, <2>7, <2>10, <3>1 DEF FewPackets
    <3> QED
      BY <2>3, <3>2, <3>3, <3>4, <3>5 DEF FewPackets
  <2> QED
    BY <2>3, <2>9, <2>10
<1> QED
  BY <1>3, <1>4, <1>5 DEF App

\* A packet that is sent when there is none is the only one.
LEMMA SendOne ==
  ASSUME IInv, \A l \in AllLinks : incoming[l] = <<>>, NEW t \in AllLinks, NEW x,
         incoming' = [incoming EXCEPT ![t] = Append(@, x)]
  PROVE  \A l \in AllLinks : incoming'[l] = IF l = t THEN <<x>> ELSE <<>>
<1>1. Append(incoming[t], x) = <<x>>
  BY OneInEmpty
<1>2. incoming' = [incoming EXCEPT ![t] = <<x>>]
  BY <1>1
<1>3. incoming \in [AllLinks -> Seq(Packet)]
  BY DEF IInv, Typed, TypeOK
<1> QED
  BY <1>2, <1>3

LEMMA NetsimPrompt ==
  ASSUME VInv, PromptInv, prompt, Netsim \/ \E l \in Links : NetsimAbort(l)
  PROVE  ~cut' /\ FewPackets'
<1>1. /\ IInv /\ ~cut /\ FewPackets /\ Links \subseteq AllLinks /\ APP_LINK \notin Links
      /\ incoming \in [AllLinks -> Seq(Packet)]
      /\ netsim \in [pc : {"accept", "test", "tell", "aborted"}, test : 1 .. Len(Tests) + 1,
                     told : SUBSET Links]
  BY LinkFacts DEF VInv, PromptInv, IInv, Typed, TypeOK, APP_LINK
<1>2. ~cut' /\ UNCHANGED <<main, app, to_app>>
  <2>1. cut' = cut /\ UNCHANGED <<main, app, to_app>>
    BY DEF Netsim, NetsimAccept, NetsimSend, NetsimReport, NetsimTell, NetsimClose, NetsimAbort,
           driver, wires
  <2> QED
    BY <1>1, <2>1
<1>3. CASE NetsimAccept \/ (\E l \in Links : NetsimClose(l) \/ NetsimAbort(l))
  <2>1. incoming' = incoming /\ (netsim'.pc = "tell" <=> netsim.pc = "tell") /\ netsim'.told = netsim.told
    BY <1>1, <1>3 DEF NetsimAccept, NetsimClose, NetsimAbort, remote, wires
  <2>2. Alone(to_app)' /\ \A l \in AllLinks : Alone(incoming'[l])
    BY <1>1, <1>2, <2>1 DEF FewPackets
  <2> QED
    BY <1>1, <1>2, <2>1, <2>2 DEF FewPackets
<1>4. CASE NetsimReport
  <2>1. incoming' = incoming /\ to_app = <<>> /\ \A l \in AllLinks : incoming[l] = <<>>
    BY <1>4 DEF NetsimReport, Quiet, wires
  <2>2. Alone(to_app)' /\ \A l \in AllLinks : Alone(incoming'[l])
    BY <1>2, <2>1 DEF Alone
  <2> QED
    BY <1>1, <1>2, <2>1, <2>2, LinkFacts DEF FewPackets
<1>5. CASE NetsimSend
  <2>1. /\ netsim.test \in Cases /\ netsim.pc = "test" /\ netsim'.pc = "test"
        /\ to_app = <<>> /\ \A l \in AllLinks : incoming[l] = <<>>
        /\ incoming' = [incoming EXCEPT ![Tests[netsim.test].link] = Append(@, Data(netsim.test))]
    BY <1>1, <1>5 DEF NetsimSend, Quiet
  <2> DEFINE x == Data(netsim.test)
             t == Tests[netsim.test].link
  <2>2. x \in Packet /\ t \in AllLinks
    BY <2>1, SentType, LinkFacts
  <2>3. incoming' = [incoming EXCEPT ![t] = Append(@, x)]
    BY <2>1
  <2> HIDE DEF x, t
  <2>4. \A l \in AllLinks : incoming'[l] = IF l = t THEN <<x>> ELSE <<>>
    BY <1>1, <2>1, <2>2, <2>3, SendOne
  <2>5. Alone(to_app)' /\ \A l \in AllLinks : Alone(incoming'[l])
    BY <1>2, <2>1, <2>2, <2>4 DEF Alone
  <2> QED
    BY <1>2, <2>1, <2>4, <2>5 DEF FewPackets
<1>6. CASE \E l \in Links : NetsimTell(l)
  <2>1. PICK t \in Links : NetsimTell(t)
    BY <1>6
  <2>2. /\ netsim.pc = "tell" /\ netsim'.pc = "tell" /\ t \notin netsim.told
        /\ netsim'.told = netsim.told \cup {t}
        /\ incoming' = [incoming EXCEPT ![t] = Append(@, Final(verdict))]
    BY <1>1, <2>1 DEF NetsimTell
  <2>3. incoming[t] = <<>>
    BY <1>1, <2>2 DEF FewPackets
  <2> DEFINE x == Final(verdict)
  <2>4. x \in Packet /\ x.flag \in Flags
    BY <1>1, <2>2, SentType DEF IInv, Typed, Final
  <2> HIDE DEF x
  <2>5. Append(incoming[t], x) = <<x>> /\ Head(<<x>>) = x /\ incoming' = [incoming EXCEPT ![t] = Append(@, x)]
    BY <2>2, <2>3, OneInEmpty DEF x
  <2>6. incoming'[t] = <<x>> /\ \A l \in AllLinks : l # t => incoming'[l] = incoming[l]
    BY <1>1, <2>5
  <2>7. Alone(to_app)' /\ \A l \in AllLinks : Alone(incoming'[l])
    <3>1. Alone(incoming'[t])
      BY <2>4, <2>6 DEF Alone
    <3>2. \A l \in AllLinks : l # t => Alone(incoming'[l])
      BY <1>1, <2>6 DEF FewPackets
    <3> QED
      BY <1>1, <1>2, <3>1, <3>2 DEF FewPackets
  <2>8. \A l \in Links : incoming'[l] # <<>> => l \in netsim'.told /\ Head(incoming'[l]).flag \in Flags
    BY <1>1, <2>2, <2>4, <2>5, <2>6 DEF FewPackets
  <2>9. incoming'[APP_LINK] = incoming[APP_LINK]
    BY <1>1, <2>6, LinkFacts
  <2> QED
    BY <1>1, <1>2, <2>2, <2>7, <2>8, <2>9 DEF FewPackets
<1> QED
  BY <1>2, <1>3, <1>4, <1>5, <1>6 DEF Netsim

LEMMA PromptStays == ASSUME [Next]_vars PROVE prompt' = prompt
BY DEF Next, vars, Main, MainConnect, MainStore, MainCreate, MainCount, MainJoin, MainTell,
   MainJoinApp, MainResults, App, AppAccept, AppAnswer, AppCrash, AppEnd, AppEof, Netsim,
   NetsimAccept, NetsimSend, NetsimReport, NetsimTell, NetsimClose, NetsimAbort, Thread,
   ThreadPass, ThreadEnd, ThreadRoute, ThreadReturn, ThreadEof

LEMMA NextPrompt == ASSUME VInv, PromptInv, [Next]_vars PROVE PromptInv'
<1> SUFFICES ASSUME prompt PROVE ~cut' /\ FewPackets'
  BY PromptStays DEF PromptInv
<1>1. CASE Next
  BY <1>1, MainPrompt, ThreadPrompt, AppPrompt, NetsimPrompt DEF Next
<1>2. CASE UNCHANGED vars
  BY <1>2, FewerPackets DEF vars, driver, remote, wires, PromptInv
<1> QED
  BY <1>1, <1>2

\* However packets run together, as long as no recv() has ended within one,
\* and whoever fails meanwhile: an application that ends properly ends with
\* netsim's verdict, after all link threads did; a router that ends does so
\* after it, with the error flag to match.  No recv() of prompt programs ends
\* within a packet.
THEOREM VerdictsAlwaysAgree == Spec => []VerdictsAgree
<1>1. VInv /\ PromptInv => VerdictsAgree
  <2> SUFFICES ASSUME VInv, PromptInv PROVE VerdictsAgree
    OBVIOUS
  <2>1. ~cut => (app \in Flags => app = verdict /\ \A l \in Links : thread[l] = verdict)
    BY DEF VInv, Agreed, LinksEnd, JoinsSoFar, AppEnds, Told, Joined
  <2>2. ~cut => (router = "ended" => app \in Flags /\ (main.error <=> verdict = "ERR"))
    BY DEF VInv, Agreed, JoinsSoFar, AppEnds, Joined
  <2>3. prompt => ~cut
    BY DEF PromptInv
  <2> QED
    BY <2>1, <2>2, <2>3 DEF VerdictsAgree
<1> QED
  BY <1>1, InitVerdict, NextVerdict, InitPrompt, NextPrompt, PTL DEF Spec
-----------------------------------------------------------------------------
(* Prompt programs: one test at a time, until it is answered. *)

AnsweredBefore(k) == \A n \in Cases : n < k /\ NeedsAnswer(n) => n \in answers

NothingIncoming == \A l \in AllLinks : incoming[l] = <<>>
OnlyIncoming(t, x) == \A l \in AllLinks : incoming[l] = IF l = t THEN <<x>> ELSE <<>>

Answer(n) == [Data(n) EXCEPT !.size = @ + Hello]

\* Where test n is, until it is answered or dropped.
AtRouter(n) == to_app = <<>> /\ OnlyIncoming(Tests[n].link, Data(n))
AtApp(n)    == to_app = <<Data(n)>> /\ NothingIncoming
OnTheWayBack(n) == to_app = <<>> /\ OnlyIncoming(APP_LINK, Answer(n))

Idle == to_app = <<>> /\ NothingIncoming

\* Nothing but the last test can be under way: until then all is answered.
LastTest ==
  \/ Idle /\ AnsweredBefore(netsim.test)
  \/ /\ netsim.test - 1 \in Cases
     /\ AnsweredBefore(netsim.test - 1)
     /\ AtRouter(netsim.test - 1) \/ AtApp(netsim.test - 1) \/ OnTheWayBack(netsim.test - 1)

\* netsim closes links only when it has told them.
OpenInv ==
  /\ netsim.pc = "accept" => netsim.test = 1
  /\ netsim.pc \in {"accept", "test"} => closed \cap Links = {} /\ netsim.told = {}

TimeInv ==
  prompt /\ router = "running" =>
    /\ netsim.pc \in {"accept", "test"} => LastTest
    /\ netsim.pc = "tell" => AnsweredBefore(netsim.test)

\* At first nothing is under way.
LEMMA InitTime == Init => OpenInv /\ TimeInv
<1> SUFFICES ASSUME Init PROVE OpenInv /\ TimeInv
  OBVIOUS
<1>1. OpenInv
  BY DEF Init, OpenInv
<1>2. Idle /\ AnsweredBefore(netsim.test)
  BY LinkFacts DEF Init, Idle, NothingIncoming, AnsweredBefore
<1> QED
  BY <1>1, <1>2 DEF TimeInv, LastTest, Init

\* Only told links and the application's are closed, unless netsim aborts.
LEMMA OpenStep ==
  ASSUME IInv, OpenInv, Next
  PROVE  OpenInv'
<1>1. CASE netsim' = netsim /\ closed' \cap Links = closed \cap Links
  BY <1>1 DEF OpenInv
<1>2. APP_LINK \notin Links
  BY LinkFacts DEF APP_LINK
<1>3. CASE Main \/ App \/ \E t \in AllLinks : Thread(t)
  <2>1. netsim' = netsim /\ (closed' = closed \/ closed' = closed \cup {APP_LINK})
    BY <1>3 DEF Main, MainConnect, MainStore, MainCreate, MainCount, MainJoin, MainTell, MainJoinApp,
       MainResults, App, AppAccept, AppAnswer, AppCrash, AppEnd, AppEof, AppRead, Thread, ThreadPass, ThreadEnd,
       ThreadRoute, ThreadReturn, ThreadEof, remote, wires
  <2> QED
    BY <1>1, <1>2, <2>1
<1>4. CASE Netsim \/ \E l \in Links : NetsimAbort(l)
  <2>0. netsim \in [pc : {"accept", "test", "tell", "aborted"}, test : 1 .. Len(Tests) + 1,
                 told : SUBSET Links]
    BY DEF IInv, Typed, TypeOK
  <2>1. CASE NetsimAccept
    BY <2>0, <2>1 DEF NetsimAccept, OpenInv, wires
  <2>2. CASE NetsimSend
    BY <2>0, <2>2 DEF NetsimSend, OpenInv, wires
  <2>3. CASE NetsimReport
    BY <2>0, <2>3 DEF NetsimReport, OpenInv, wires
  <2>4. ASSUME NEW l \in Links, NetsimTell(l) PROVE OpenInv'
    BY <2>0, <2>4 DEF NetsimTell, OpenInv, wires
  <2>5. ASSUME NEW l \in Links, NetsimClose(l) PROVE OpenInv'
    BY <2>0, <2>5 DEF NetsimClose, OpenInv, remote
  <2>6. ASSUME NEW l \in Links, NetsimAbort(l) PROVE OpenInv'
    BY <2>0, <2>6 DEF NetsimAbort, OpenInv
  <2> QED
    BY <1>4, <2>1, <2>2, <2>3, <2>4, <2>5, <2>6 DEF Netsim
<1> QED
  BY <1>3, <1>4 DEF Next

\* A step that neither moves packets nor netsim.
LEMMA NothingMoves ==
  ASSUME TimeInv, prompt' = prompt, netsim' = netsim, to_app' = to_app, incoming' = incoming,
         answers \subseteq answers', router' = "running" => router = "running"
  PROVE  TimeInv'
BY DEF TimeInv, LastTest, Idle, NothingIncoming, AnsweredBefore, AtRouter, AtApp, OnTheWayBack,
       OnlyIncoming

\* Once all is told the answers are there, whatever still moves.
LEMMA AnswersStay ==
  ASSUME TimeInv, prompt' = prompt, netsim' = netsim, netsim.pc \notin {"accept", "test"},
         answers \subseteq answers', router' = "running" => router = "running"
  PROVE  TimeInv'
BY DEF TimeInv, AnsweredBefore

\* A step of the programs while netsim waits for the last test.
LEMMA Moved ==
  ASSUME prompt' = prompt, netsim' = netsim, netsim.pc # "tell", LastTest' \/ router' # "running"
  PROVE  TimeInv'
BY DEF TimeInv

\* main() sends nothing to the application before netsim has decided.
LEMMA MainTime ==
  ASSUME Agreed, TimeInv, Main
  PROVE  TimeInv'
<1>1. CASE MainTell
  <2>1. netsim.pc = "tell"
    <3>1. \A l \in Links : thread[l] \in Flags
      BY <1>1 DEF MainTell, Running, Agreed, JoinsSoFar, Joined
    <3>2. verdict # "none"
      BY <3>1, LinkFacts DEF Agreed, LinksEnd, Flags
    <3> QED
      BY <3>2 DEF Agreed, LinksEnd
  <2>2. /\ UNCHANGED <<prompt, netsim, answers>>
        /\ router' = "running" => router = "running"
    BY <1>1 DEF MainTell, Running, At, remote
  <2> QED
    BY <2>1, <2>2, AnswersStay
<1>2. CASE Main /\ ~MainTell
  <2>1. /\ prompt' = prompt /\ netsim' = netsim /\ to_app' = to_app /\ incoming' = incoming
        /\ answers' = answers /\ (router' = "running" => router = "running")
    BY <1>2 DEF Main, MainConnect, MainStore, MainCreate, MainCount, MainJoin, MainJoinApp,
       MainResults, remote, wires
  <2> QED
    BY <2>1, NothingMoves
<1> QED
  BY <1>1, <1>2

\* The number of the last test, and what its packet and its answer are.
LEMMA LastFacts ==
  ASSUME IInv
  PROVE  /\ netsim.test \in 1 .. Len(Tests) + 1 /\ Len(Tests) \in Nat
         /\ \A n \in Cases : Tests[n].link \in Links /\ Tests[n].link \in AllLinks
                            /\ Tests[n].link # APP_LINK
         /\ incoming \in [AllLinks -> Seq(Packet)]
         /\ Cases = 1 .. Len(Tests)
<1>1. APP_LINK \notin Links
  BY LinkFacts DEF APP_LINK
<1> QED
  BY <1>1, LinkFacts DEF IInv, Typed, TypeOK

LEMMA LastPacket ==
  ASSUME NEW n \in Cases, NEW x \in {Data(n), Answer(n)}
  PROVE  /\ x.flag = "none" /\ x.flag \notin Flags /\ x.test = n
         /\ ~MayRefuse(<<x>>) /\ ~MayPass(<<x>>)
<1>1. x.flag = "none" /\ x.flag \notin Flags /\ x.test = n
  BY DEF Data, Answer, Flags
<1>2. x.test # -1
  BY <1>1, LinkFacts
<1>3. Len(<<x>>) = 1 /\ Head(<<x>>) = x
  OBVIOUS
<1> HIDE DEF Data
<1>4. Head(<<x>>).test # -1 /\ ~(Len(<<x>>) > 1)
  BY <1>2, <1>3
<1> QED
  BY <1>1, <1>4 DEF MayRefuse, MayPass

\* What a thread reads is the last test, on the link it is on, or its answer.
LEMMA ReadOne ==
  ASSUME IInv, FewPackets, ~cut, LastTest, NEW t \in AllLinks, NEW read \in Reads(incoming[t]),
         ReadFrom(t, read)
  PROVE  LET n == netsim.test - 1 IN
         /\ n \in Cases /\ AnsweredBefore(n) /\ to_app = <<>>
         /\ \E x \in {Data(n), Answer(n)} : read.taken = <<x>> /\ Head(read.taken) = x
         /\ t # APP_LINK => Head(read.taken) = Data(n)
         /\ \A l \in AllLinks : incoming'[l] = <<>>
<1> DEFINE n == netsim.test - 1
<1>1. PICK x \in Packet : /\ incoming[t] = <<x>> /\ Head(incoming[t]) = x
                          /\ read.taken = <<x>> /\ Head(read.taken) = x
  BY ReadFromAlone
<1>2. incoming[t] # <<>> /\ \A l \in AllLinks : incoming'[l] = IF l = t THEN <<>> ELSE incoming[l]
  BY ReadFromAlone
<1>3. /\ n \in Cases /\ AnsweredBefore(n) /\ to_app = <<>>
      /\ OnlyIncoming(Tests[n].link, Data(n)) \/ OnlyIncoming(APP_LINK, Answer(n))
  BY <1>2 DEF LastTest, Idle, NothingIncoming, AtRouter, AtApp, OnTheWayBack
<1> HIDE DEF n
<1>4. CASE OnlyIncoming(Tests[n].link, Data(n))
  <2>1. t = Tests[n].link /\ incoming[t] = <<Data(n)>> /\ Head(incoming[t]) = Data(n)
    BY <1>2, <1>4, OneInEmpty DEF OnlyIncoming
  <2>2. \A l \in AllLinks : incoming'[l] = <<>>
    BY <1>2, <1>4, <2>1 DEF OnlyIncoming
  <2> QED
    BY <1>1, <1>3, <2>1, <2>2, Zenon DEF n
<1>5. CASE OnlyIncoming(APP_LINK, Answer(n))
  <2>1. t = APP_LINK /\ incoming[t] = <<Answer(n)>> /\ Head(incoming[t]) = Answer(n)
    BY <1>2, <1>5, OneInEmpty DEF OnlyIncoming
  <2>2. \A l \in AllLinks : incoming'[l] = <<>>
    BY <1>2, <1>5, <2>1 DEF OnlyIncoming
  <2> QED
    BY <1>1, <1>3, <2>1, <2>2, Zenon DEF n
<1> QED
  BY <1>3, <1>4, <1>5

\* Everything before the last test is answered; so is that one, or it needs
\* no answer.
LEMMA OneMore ==
  ASSUME IInv, netsim' = netsim, netsim.test - 1 \in Cases, AnsweredBefore(netsim.test - 1),
         answers \subseteq answers',
         NeedsAnswer(netsim.test - 1) => netsim.test - 1 \in answers'
  PROVE  AnsweredBefore(netsim.test)'
<1> SUFFICES ASSUME NEW n \in Cases, n < netsim.test, NeedsAnswer(n) PROVE n \in answers'
  BY DEF AnsweredBefore
<1>1. n < netsim.test - 1 \/ n = netsim.test - 1
  BY LastFacts
<1> QED
  BY <1>1 DEF AnsweredBefore

\* A thread reads the last test and hands it on, or drops it.
LEMMA ThreadTime ==
  ASSUME VInv, PromptInv, OpenInv, TimeInv, NEW t \in AllLinks, Thread(t)
  PROVE  TimeInv'
<1>1. IInv
  BY DEF VInv
<1>2. CASE ThreadPass(t) \/ ThreadEof(t)
  <2>1. /\ prompt' = prompt /\ netsim' = netsim /\ to_app' = to_app /\ incoming' = incoming
        /\ answers' = answers /\ (router' = "running" => router = "running")
    BY <1>2 DEF ThreadPass, ThreadEof, Reading, remote, wires
  <2> QED
    BY <2>1, NothingMoves
<1>3. CASE ThreadEnd(t) \/ ThreadRoute(t) \/ (t = APP_LINK /\ ThreadReturn)
  <2>1. /\ prompt' = prompt /\ netsim' = netsim /\ answers \subseteq answers' /\ router = "running"
    BY <1>3 DEF ThreadEnd, ThreadRoute, ThreadReturn, ReadFrom, Reading, remote
  <2>2. CASE ~prompt
    BY <2>1, <2>2 DEF TimeInv
  <2>3. CASE netsim.pc \notin {"accept", "test"}
    BY <2>1, <2>3, AnswersStay
  <2>4. CASE prompt /\ netsim.pc \in {"accept", "test"}
    <3> DEFINE n == netsim.test - 1
    <3>1. LastTest /\ FewPackets /\ ~cut
      BY <2>1, <2>4 DEF TimeInv, PromptInv
    <3>2. ASSUME NEW read \in Reads(incoming[t]), ReadFrom(t, read)
          PROVE  /\ n \in Cases /\ AnsweredBefore(n) /\ to_app = <<>> /\ NothingIncoming'
                 /\ Head(read.taken).flag = "none" /\ Head(read.taken).flag \notin Flags
                 /\ Head(read.taken).test = n /\ ~MayRefuse(read.taken) /\ ~MayPass(read.taken)
                 /\ t # APP_LINK => Head(read.taken) = Data(n)
      <4>1. /\ n \in Cases /\ AnsweredBefore(n) /\ to_app = <<>>
            /\ \E x \in {Data(n), Answer(n)} : read.taken = <<x>> /\ Head(read.taken) = x
            /\ t # APP_LINK => Head(read.taken) = Data(n)
            /\ \A l \in AllLinks : incoming'[l] = <<>>
        BY <1>1, <3>1, <3>2, ReadOne
      <4> HIDE DEF n
      <4>2. PICK x \in {Data(n), Answer(n)} : read.taken = <<x>> /\ Head(read.taken) = x
        BY <4>1
      <4>3. /\ x.flag = "none" /\ x.flag \notin Flags /\ x.test = n
            /\ ~MayRefuse(<<x>>) /\ ~MayPass(<<x>>)
        BY <4>1, LastPacket
      <4>4. NothingIncoming'
        BY <4>1 DEF NothingIncoming
      <4> QED
        BY <4>1, <4>2, <4>3, <4>4
    <3>3. n' = n
      BY <2>1
    <3>4. ASSUME n \in Cases PROVE n = netsim.test - 1 /\ Tests[n].link # APP_LINK /\ Tests[n].link \in Links
      BY <1>1, <3>4, LastFacts
    <3> HIDE DEF n
    <3>5. ~ThreadEnd(t)
      BY <3>2 DEF ThreadEnd
    <3>6. CASE ThreadRoute(t)
      <4>1. PICK read \in Reads(incoming[t]) :
              /\ ReadFrom(t, read) /\ answers' = answers
              /\ LET p == Head(read.taken) IN
                 \/ MayRefuse(read.taken)
                 \/ p.test \in Cases /\ Tests[p.test].kind = "router" /\ UNCHANGED to_app
                 \/ p.test \in Cases /\ Tests[p.test].kind = "app" /\ to_app' = Append(to_app, p)
                 \/ MayPass(read.taken)
        BY <3>6 DEF ThreadRoute
      <4>2. t # APP_LINK
        BY <3>6, LinkFacts DEF ThreadRoute, APP_LINK
      <4>3. /\ n \in Cases /\ AnsweredBefore(n) /\ to_app = <<>> /\ NothingIncoming'
            /\ \/ Tests[n].kind = "router" /\ to_app' = <<>>
               \/ to_app' = Append(<<>>, Data(n))
        BY <3>2, <4>1, <4>2
      <4>4. CASE Tests[n].kind = "router" /\ to_app' = <<>>
        <5>1. ~NeedsAnswer(n)
          BY <4>4 DEF NeedsAnswer
        <5>2. AnsweredBefore(netsim.test)'
          BY <1>1, <2>1, <3>4, <4>3, <5>1, OneMore
        <5> QED
          BY <2>1, <2>4, <4>3, <4>4, <5>2, Moved DEF LastTest, Idle
      <4>5. CASE to_app' = Append(<<>>, Data(n))
        <5>1. to_app' = <<Data(n)>>
          BY <4>5, OneInEmpty
        <5>2. AtApp(n)'
          <6>1. Data(n)' = Data(n)
            BY <3>3 DEF Data
          <6> QED
            BY <4>3, <5>1, <6>1 DEF AtApp
        <5>3. AnsweredBefore(n)'
          BY <3>3, <4>1, <4>3 DEF AnsweredBefore, NeedsAnswer
        <5>4. LastTest'
          BY <3>3, <4>3, <5>2, <5>3 DEF LastTest, n
        <5> QED
          BY <2>1, <2>4, <5>4, Moved
      <4> QED
        BY <4>3, <4>4, <4>5
    <3>7. CASE t = APP_LINK /\ ThreadReturn
      <4>1. PICK read \in Reads(incoming[t]) :
              /\ ReadFrom(t, read) /\ to_app' = to_app
              /\ LET k == Head(read.taken).test IN
                 \/ MayRefuse(read.taken)
                 \/ k \in Cases /\ Tests[k].link \notin closed /\ answers' = answers \cup {k}
                 \/ k \in Cases /\ Tests[k].link \in closed
                 \/ MayPass(read.taken)
        BY <3>7 DEF ThreadReturn
      <4>2. /\ n \in Cases /\ AnsweredBefore(n) /\ to_app = <<>> /\ NothingIncoming'
            /\ Tests[n].link \in closed \/ answers' = answers \cup {n}
        BY <3>2, <4>1
      <4>3. Tests[n].link \notin closed
        BY <2>4, <3>4, <4>2 DEF OpenInv
      <4>4. AnsweredBefore(netsim.test)'
        BY <1>1, <2>1, <3>4, <4>2, <4>3, OneMore
      <4> QED
        BY <2>1, <2>4, <4>1, <4>2, <4>4, Moved DEF LastTest, Idle
    <3> QED
      BY <1>3, <3>5, <3>6, <3>7
  <2> QED
    BY <2>2, <2>3, <2>4
<1> QED
  BY <1>2, <1>3 DEF Thread

\* The application answers the last test or drops it.
LEMMA AppTime ==
  ASSUME VInv, PromptInv, TimeInv, App
  PROVE  TimeInv'
<1>1. IInv
  BY DEF VInv
<1>2. CASE AppAccept \/ AppEof
  <2>1. /\ prompt' = prompt /\ netsim' = netsim /\ to_app' = to_app /\ incoming' = incoming
        /\ answers' = answers /\ router' = router
    BY <1>2 DEF AppAccept, AppEof, remote, wires
  <2> QED
    BY <2>1, NothingMoves
<1>3. CASE AppAnswer \/ AppCrash \/ AppEnd
  <2>1. /\ prompt' = prompt /\ netsim' = netsim /\ answers' = answers /\ router' = router
    BY <1>3 DEF AppAnswer, AppCrash, AppEnd, remote
  <2>2. CASE ~(prompt /\ router = "running")
    BY <2>1, <2>2 DEF TimeInv
  <2>3. CASE netsim.pc \notin {"accept", "test"}
    BY <2>1, <2>3, AnswersStay
  <2>4. CASE prompt /\ router = "running" /\ netsim.pc \in {"accept", "test"}
    <3> DEFINE n == netsim.test - 1
    <3>1. LastTest /\ FewPackets /\ ~cut
      BY <2>1, <2>4 DEF TimeInv, PromptInv
    <3>2. PICK read \in Reads(to_app) :
            /\ AppRead(read)
            /\ \/ /\ Head(read.taken).flag = "none"
                  /\ (MayRefuse(read.taken) \/ TooLarge(Head(read.taken))) /\ incoming' = incoming
               \/ /\ Head(read.taken).flag = "none"
                  /\ ~TooLarge(Head(read.taken)) /\ incoming' = Answered(Head(read.taken))
               \/ /\ ~TooLarge(Head(read.taken))
                  /\ Bytes(read.taken) + Hello > PayloadRoom \/ MayPass(read.taken)
               \/ Head(read.taken).flag \in Flags
      BY <1>3 DEF AppAnswer, AppCrash, AppEnd
    <3>3. PICK x \in Packet : /\ to_app = <<x>> /\ Head(to_app) = x
                              /\ read.taken = <<x>> /\ Head(read.taken) = x
      BY <3>1, <3>2, AppReadAlone
    <3>4. to_app # <<>> /\ to_app' = <<>>
      BY <3>1, <3>2, AppReadAlone
    <3>5. n \in Cases /\ AnsweredBefore(n) /\ AtApp(n)
      BY <3>1, <3>4 DEF LastTest, Idle, AtRouter, OnTheWayBack
    <3>6. n' = n /\ n = netsim.test - 1
      BY <2>1
    <3> HIDE DEF n
    <3>7. x = Data(n)
      <4>1. Head(to_app) = Data(n)
        BY <3>5, OneInEmpty DEF AtApp
      <4> QED
        BY <3>3, <4>1
    <3>8. /\ x.flag = "none" /\ x.flag \notin Flags /\ ~MayRefuse(<<x>>) /\ ~MayPass(<<x>>)
      BY <3>5, <3>7, LastPacket
    <3>9. TooLarge(x) => ~NeedsAnswer(n)
      <4>1. \A k \in Nat : k > MAX_PACKET_SIZE - Hello => ~(k + Hello <= MAX_PACKET_SIZE)
        BY SMT DEF MAX_PACKET_SIZE, Hello
      <4>2. Tests[n].size \in Nat /\ x.size = Tests[n].size
        BY <3>5, <3>7, TestSizes DEF Data
      <4> QED
        BY <4>1, <4>2, Zenon DEF TooLarge, NeedsAnswer
    <3>10. ~TooLarge(x) => ~(Bytes(<<x>>) + Hello > PayloadRoom)
      <4>1. x.size = Tests[n].size
        BY <3>7 DEF Data
      <4>2. Bytes(<<x>>) = x.size
        <5>1. x.size \in Nat
          BY <3>5, <4>1, TestSizes
        <5>2. Len(<<x>>) = 1
          OBVIOUS
        <5> QED
          BY <5>1, <5>2, BytesOfOne DEF Bytes
      <4>3. Tests[n].size + Hello > PayloadRoom => Tests[n].size > MAX_PACKET_SIZE - Hello
        BY <3>5, TestSizes
      <4> QED
        BY <4>1, <4>2, <4>3, Zenon DEF TooLarge
    <3>11. \/ TooLarge(x) /\ incoming' = incoming
           \/ ~TooLarge(x) /\ incoming' = Answered(x)
      BY <3>2, <3>3, <3>8, <3>10
    <3>12. CASE TooLarge(x) /\ incoming' = incoming
      <4>1. NothingIncoming'
        BY <3>5, <3>12 DEF AtApp, NothingIncoming
      <4>2. AnsweredBefore(netsim.test)'
        BY <1>1, <2>1, <3>5, <3>6, <3>9, <3>12, OneMore
      <4> QED
        BY <2>1, <2>4, <3>4, <4>1, <4>2, Moved DEF LastTest, Idle
    <3>13. CASE ~TooLarge(x) /\ incoming' = Answered(x)
      <4>1. incoming' = [incoming EXCEPT ![APP_LINK] = Append(@, Answer(n))]
        BY <3>7, <3>13 DEF Answered, Answer
      <4>2. \A l \in AllLinks : incoming'[l] = IF l = APP_LINK THEN <<Answer(n)>> ELSE <<>>
        BY <1>1, <3>5, <4>1, LinkFacts, SendOne DEF AtApp, NothingIncoming
      <4>3. OnTheWayBack(n)'
        <5>1. Answer(n)' = Answer(n)
          BY <3>6 DEF Answer, Data
        <5> QED
          BY <3>4, <4>2, <5>1 DEF OnTheWayBack, OnlyIncoming
      <4>4. AnsweredBefore(n)'
        BY <2>1, <3>5, <3>6 DEF AnsweredBefore, NeedsAnswer
      <4>5. LastTest'
        BY <3>5, <3>6, <4>3, <4>4 DEF LastTest, n
      <4> QED
        BY <2>1, <2>4, <4>5, Moved
    <3> QED
      BY <3>11, <3>12, <3>13
  <2> QED
    BY <2>2, <2>3, <2>4
<1> QED
  BY <1>2, <1>3 DEF App

\* netsim waits until all is quiet, so by then the last test is answered.
LEMMA QuietMeansAnswered ==
  ASSUME IInv, TimeInv, prompt, router = "running", Quiet, netsim.pc = "test"
  PROVE  Idle /\ AnsweredBefore(netsim.test)
<1>1. Idle
  BY DEF Quiet, Idle, NothingIncoming
<1>2. LastTest
  BY DEF TimeInv
<1>3. ASSUME NEW n \in Cases PROVE ~AtRouter(n) /\ ~AtApp(n) /\ ~OnTheWayBack(n)
  <2>1. ~OnlyIncoming(Tests[n].link, Data(n)) /\ ~OnlyIncoming(APP_LINK, Answer(n))
    BY <1>1, LastFacts, LinkFacts, OneInEmpty DEF Idle, NothingIncoming, OnlyIncoming
  <2> QED
    BY <1>1, <2>1 DEF AtRouter, AtApp, OnTheWayBack, Idle
<1> QED
  BY <1>1, <1>2, <1>3 DEF LastTest

\* netsim sends the next test when the last one is out of the way.
LEMMA NetsimTime ==
  ASSUME VInv, OpenInv, TimeInv, Netsim \/ \E l \in Links : NetsimAbort(l)
  PROVE  TimeInv'
<1>1. IInv /\ netsim \in [pc : {"accept", "test", "tell", "aborted"}, test : 1 .. Len(Tests) + 1,
                          told : SUBSET Links]
  BY DEF VInv, IInv, Typed, TypeOK
<1>2. UNCHANGED <<prompt, router, answers, to_app>>
  BY DEF Netsim, NetsimAccept, NetsimSend, NetsimReport, NetsimTell, NetsimClose, NetsimAbort, wires
<1>3. CASE ~(prompt /\ router = "running")
  BY <1>2, <1>3 DEF TimeInv
<1>4. CASE prompt /\ router = "running"
  <2>1. CASE NetsimAccept
    <3>1. /\ netsim'.pc = "test" /\ netsim'.test = netsim.test /\ netsim.pc = "accept"
          /\ incoming' = incoming
      BY <1>1, <2>1 DEF NetsimAccept, wires
    <3>2. LastTest
      BY <1>4, <3>1 DEF TimeInv
    <3>3. LastTest'
      BY <1>2, <3>1, <3>2 DEF LastTest, Idle, NothingIncoming, AnsweredBefore, AtRouter, AtApp,
                              OnTheWayBack, OnlyIncoming
    <3> QED
      BY <3>1, <3>3 DEF TimeInv
  <2>2. CASE NetsimSend
    <3> DEFINE n == netsim.test
    <3>1. Idle /\ AnsweredBefore(n)
      BY <1>1, <1>4, <2>2, QuietMeansAnswered DEF NetsimSend
    <3>2. /\ n \in Cases /\ netsim'.pc = "test" /\ netsim'.test = n + 1 /\ netsim'.test - 1 = n
          /\ incoming' = [incoming EXCEPT ![Tests[n].link] = Append(@, Data(n))]
      BY <1>1, <2>2, LastFacts DEF NetsimSend
    <3> HIDE DEF n
    <3>3. \A l \in AllLinks : incoming'[l] = IF l = Tests[n].link THEN <<Data(n)>> ELSE <<>>
      <4> DEFINE l == Tests[n].link
                 x == Data(n)
      <4>1. l \in AllLinks /\ \A k \in AllLinks : incoming[k] = <<>>
        BY <1>1, <3>1, <3>2, LastFacts DEF Idle, NothingIncoming
      <4>2. incoming' = [incoming EXCEPT ![l] = Append(@, x)]
        BY <3>2
      <4> HIDE DEF l, x
      <4>3. \A k \in AllLinks : incoming'[k] = IF k = l THEN <<x>> ELSE <<>>
        BY <1>1, <4>1, <4>2, SendOne
      <4> QED
        BY <4>3 DEF l, x
    <3>4. /\ \A l \in AllLinks :
               incoming'[l] = IF l = Tests[netsim'.test - 1].link THEN <<Data(netsim'.test - 1)>> ELSE <<>>
          /\ to_app' = <<>>
      BY <1>2, <3>1, <3>2, <3>3 DEF Idle
    <3>5. AtRouter(netsim.test - 1)'
      BY <3>4 DEF AtRouter, OnlyIncoming
    <3>6. AnsweredBefore(netsim.test - 1)' /\ netsim'.test - 1 \in Cases
      BY <1>2, <3>1, <3>2 DEF AnsweredBefore
    <3>7. LastTest'
      BY <3>5, <3>6 DEF LastTest
    <3> QED
      BY <3>2, <3>7 DEF TimeInv
  <2>3. CASE NetsimReport
    <3>1. AnsweredBefore(netsim.test)
      BY <1>1, <1>4, <2>3, QuietMeansAnswered DEF NetsimReport
    <3>2. netsim'.pc = "tell" /\ netsim'.test = netsim.test
      BY <1>1, <2>3 DEF NetsimReport
    <3> QED
      BY <1>2, <3>1, <3>2 DEF TimeInv, AnsweredBefore
  <2>4. ASSUME NEW l \in Links, NetsimTell(l) PROVE TimeInv'
    <3>1. netsim'.pc = "tell" /\ netsim.pc = "tell" /\ netsim'.test = netsim.test
      BY <1>1, <2>4 DEF NetsimTell
    <3> QED
      BY <1>2, <1>4, <3>1 DEF TimeInv, AnsweredBefore
  <2>5. ASSUME NEW l \in Links, NetsimClose(l) PROVE TimeInv'
    <3>1. netsim' = netsim /\ incoming' = incoming
      BY <2>5 DEF NetsimClose, remote
    <3> QED
      BY <1>2, <3>1, NothingMoves
  <2>6. ASSUME NEW l \in Links, NetsimAbort(l) PROVE TimeInv'
    <3>1. netsim'.pc = "aborted"
      BY <1>1, <2>6 DEF NetsimAbort
    <3> QED
      BY <3>1 DEF TimeInv
  <2> QED
    BY <2>1, <2>2, <2>3, <2>4, <2>5, <2>6 DEF Netsim
<1> QED
  BY <1>3, <1>4

\* With prompt programs, whatever the kinds, sizes and number of the tests:
\* netsim neither sends nor decides before the application has answered every
\* packet it has to, and route() has returned the answer on its link.
THEOREM AnswersInTime == Spec => AnsweredInTime
<1> DEFINE I == VInv /\ PromptInv /\ OpenInv /\ TimeInv
<1>1. I /\ [Next]_vars => I'
  <2>1. ASSUME I, Next PROVE (OpenInv /\ TimeInv)'
    <3>1. OpenInv'
      BY <2>1, OpenStep DEF VInv
    <3>2. TimeInv'
      <4>1. CASE ~prompt
        <5>1. prompt' = prompt
          BY <2>1, PromptStays
        <5> QED
          BY <4>1, <5>1 DEF TimeInv
      <4>2. CASE prompt
        <5>1. Agreed
          BY <2>1, <4>2 DEF VInv, PromptInv
        <5> QED
          BY <2>1, <5>1, MainTime, ThreadTime, AppTime, NetsimTime DEF Next
      <4> QED
        BY <4>1, <4>2
    <3> QED
      BY <3>1, <3>2
  <2>2. ASSUME I, UNCHANGED vars PROVE (OpenInv /\ TimeInv)'
    BY <2>2, NothingMoves DEF vars, remote, wires, OpenInv
  <2> QED
    BY <2>1, <2>2, NextVerdict, NextPrompt
<1>2. I /\ [Next]_vars =>
        [prompt /\ netsim'.pc # "aborted" /\ netsim' # netsim /\ router = "running" =>
           \A n \in Cases : n < netsim.test /\ NeedsAnswer(n) => n \in answers]_vars
  <2> SUFFICES ASSUME VInv, OpenInv, TimeInv, Next,
                      prompt, netsim'.pc # "aborted", netsim' # netsim, router = "running"
               PROVE  AnsweredBefore(netsim.test)
    BY DEF AnsweredBefore
  <2>1. Netsim
    <3>1. ~ \E l \in Links : NetsimAbort(l)
      BY DEF NetsimAbort, VInv, IInv, Typed, TypeOK
    <3>2. ~Main /\ ~App
      BY DEF Main, MainConnect, MainStore, MainCreate, MainCount, MainJoin, MainTell, MainJoinApp,
         MainResults, App, AppAccept, AppAnswer, AppCrash, AppEnd, AppEof, remote
    <3>3. \A t \in AllLinks : ~Thread(t)
      BY DEF Thread, ThreadPass, ThreadEnd, ThreadRoute, ThreadReturn, ThreadEof, remote
    <3> QED
      BY <3>1, <3>2, <3>3 DEF Next
  <2>2. CASE NetsimAccept
    BY <2>2, LinkFacts DEF NetsimAccept, OpenInv, AnsweredBefore
  <2>3. CASE NetsimSend \/ NetsimReport
    BY <2>3, QuietMeansAnswered DEF NetsimSend, NetsimReport, VInv
  <2>4. CASE \E l \in Links : NetsimTell(l) \/ NetsimClose(l)
    BY <2>4 DEF NetsimTell, NetsimClose, remote, TimeInv
  <2> QED
    BY <2>1, <2>2, <2>3, <2>4 DEF Netsim
<1>3. Init => I
  BY InitTime, InitVerdict, InitPrompt
<1> QED
  BY <1>1, <1>2, <1>3, PTL DEF Spec, AnsweredInTime
=============================================================================
