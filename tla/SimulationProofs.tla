-------------------------- MODULE SimulationProofs --------------------------
(***************************************************************************)
(* What a simulation tells a router, for every number of links, sequence   *)
(* of tests and environment: every test gets a verdict, all links are told *)
(* the same and truly, and no router passes a test it did not answer.  A   *)
(* router in time is fed one test at a time and passes those it deserves.  *)
(***************************************************************************)
EXTENDS SimulationProps, SequenceTheorems, FiniteSetTheorems, TLAPS

\* Where MainRecv stands in a test: the links that have answered.
Met == {l \in Tests[main.test].recv_links : l < main.i}

\* Tests that are over have a verdict.  In a test, links that answered
\* wrongly either gave it its verdict or left the count behind.
VerdictInv ==
  /\ \A k \in Cases :
       k < main.test \/ main.pc \in {"report", "finish", "end"} => errors[k] # "none"
  /\ main.pc = "send" => main.count = 0 /\ ~main.failed
  /\ main.pc = "recv" =>
       /\ main.count <= main.i /\ main.count <= Cardinality(Met)
       /\ main.failed /\ errors[main.test] = "none" => main.count < Cardinality(Met)

\* The verdicts do not change once they have been reported, and what links
\* are told, or are about to be, follows from them.
ToldInv ==
  /\ main.pc \in {"finish", "end"} => reported
  /\ reported => main.pc \in {"finish", "end", "cleanup", "done"}
                 /\ \A k \in Cases : errors[k] # "none"
  /\ \A l \in Links : \A n \in 1 .. Len(to[l]) :
       to[l][n].kind = "noresponse" => reported /\ to[l][n].packet = LastPacket
  /\ \A l \in Links : told[l] # "none" => reported /\ told[l] = LastPacket

\* Test t has been given to a link thread.
Sent(t) == t < main.test \/ (t = main.test /\ (main.pc # "send" \/ main.i > Tests[t].send_link))

Says(m, l) == reply[m.test] # <<>> /\ reply[m.test][l] = m.value

\* A test is sent once and answered once, so an answer stays the answer.
SentInv ==
  /\ \A l \in Links : \A n \in 1 .. Len(to[l]) :
       to[l][n].kind = "active" =>
         LET t == to[l][n].test IN
         /\ l = Tests[t].send_link /\ Sent(t) /\ reply[t] = <<>>
         /\ \A m \in 1 .. Len(at_router) : at_router[m] # t
         /\ \A m \in 1 .. Len(to[l]) : to[l][m].kind = "active" /\ to[l][m].test = t => m = n
  /\ \A n \in 1 .. Len(at_router) :
       /\ Sent(at_router[n]) /\ reply[at_router[n]] = <<>>
       /\ \A m \in 1 .. Len(at_router) : at_router[m] = at_router[n] => m = n
  /\ \A t \in Cases : reply[t] # <<>> => Sent(t)

\* What is on the way back to the main thread is what the router answered.
SaidInv ==
  \A l \in Links :
    /\ \A n \in 1 .. Len(outbox[l]) : Says(outbox[l][n], l)
    /\ \A n \in 1 .. Len(inbox[l]) : Says(inbox[l][n], l)
    /\ \A n \in 1 .. Len(from[l]) : from[l][n].kind = "packet" => Says(from[l][n], l)

\* So a test that has not failed so far was answered so far.
HeardInv ==
  /\ main.pc = "recv" /\ ~main.failed =>
       \A l \in Met : reply[main.test] # <<>> /\ reply[main.test][l] = "right"
  /\ PassedWasAnswered

-----------------------------------------------------------------------------
(* Types. *)

MainState == [pc : {"send", "recv", "report", "finish", "end", "cleanup", "done"},
              test : Cases, i : 0 .. ROUTER_LINK_COUNT, received : BOOLEAN,
              count : 0 .. ROUTER_LINK_COUNT, failed : BOOLEAN]

LEMMA LinkFacts ==
  /\ ROUTER_LINK_COUNT \in Nat \ {0} /\ Links \subseteq Int
  /\ \A i : i \in Links <=> i \in Nat /\ i < ROUTER_LINK_COUNT
BY SimulationAssumption DEF Links

LEMMA TestFacts ==
  ASSUME env \in Environments
  PROVE  /\ Len(Tests) \in Nat \ {0} /\ 1 \in Cases
         /\ \A k : k \in Cases <=> k \in Nat /\ 1 <= k /\ k <= Len(Tests)
         /\ \A k \in Cases : Tests[k].send_link \in Links /\ Tests[k].recv_links \subseteq Links
         /\ ReplyValues \subseteq {"none", "right", "wrong", "short"}
<1> DEFINE Case == [send_link : Links, recv_links : SUBSET Links]
<1>1. Tests \in Seq(Case) /\ Tests # <<>> /\ ReplyValues \subseteq {"none", "right", "wrong", "short"}
  BY SimulationAssumption DEF IsEnvironment, Tests, ReplyValues
<1>2. Len(Tests) \in Nat \ {0}
  BY <1>1, EmptySeq
<1>3. \A k \in Cases : Tests[k] \in Case
  BY <1>1, ElementOfSeq DEF Cases
<1> QED
  BY <1>1, <1>2, <1>3 DEF Cases

LEMMA MessageFacts ==
  ASSUME NEW m \in Message
  PROVE  /\ m.kind \in {"active", "inactive", "end", "noresponse"}
         /\ m.kind = "active" => m.test \in Cases
         /\ m.kind = "noresponse" => m.packet \in {"ERR", "END"}
BY DEF Message

LEMMA Messages ==
  /\ \A k \in Cases : [kind |-> "active", test |-> k] \in Message
  /\ [kind |-> "inactive"] \in Message /\ [kind |-> "end"] \in Message
  /\ \A p \in {"ERR", "END"} : [kind |-> "noresponse", packet |-> p] \in Message
BY DEF Message

LEMMA AnsweredFacts ==
  ASSUME NEW m \in Answered
  PROVE  /\ m.kind \in {"packet", "error", "inactive"}
         /\ m.kind = "packet" => m.test \in Cases /\ m.value \in {"right", "wrong"}
BY DEF Answered

LEMMA Answers ==
  /\ \A k \in Cases, v \in {"right", "wrong"} :
       [kind |-> "packet", test |-> k, value |-> v] \in Answered
  /\ [kind |-> "error"] \in Answered /\ [kind |-> "inactive"] \in Answered
BY DEF Answered

\* Where the messages of a channel come from when one is put in.
LEMMA PutFacts ==
  ASSUME NEW S, NEW c \in [Links -> Seq(S)], NEW l \in Links, NEW m \in S
  PROVE  /\ Put(c, l, m) \in [Links -> Seq(S)]
         /\ \A k \in Links : \A n \in 1 .. Len(Put(c, l, m)[k]) :
              \/ n \in 1 .. Len(c[k]) /\ Put(c, l, m)[k][n] = c[k][n]
              \/ k = l /\ n = Len(c[l]) + 1 /\ Put(c, l, m)[k][n] = m
<1>1. c[l] \in Seq(S)
  OBVIOUS
<1>2. /\ Append(c[l], m) \in Seq(S) /\ Len(Append(c[l], m)) = Len(c[l]) + 1
      /\ \A n \in 1 .. Len(c[l]) : Append(c[l], m)[n] = c[l][n]
      /\ Append(c[l], m)[Len(c[l]) + 1] = m
  BY <1>1, AppendProperties
<1>3. Len(c[l]) \in Nat
  BY <1>1
<1>4. /\ Put(c, l, m) \in [Links -> Seq(S)] /\ Put(c, l, m)[l] = Append(c[l], m)
      /\ \A k \in Links \ {l} : Put(c, l, m)[k] = c[k]
  BY <1>2 DEF Put
<1>5. ASSUME NEW n \in 1 .. Len(Append(c[l], m))
      PROVE  \/ n \in 1 .. Len(c[l]) /\ Append(c[l], m)[n] = c[l][n]
             \/ n = Len(c[l]) + 1 /\ Append(c[l], m)[n] = m
  BY <1>2, <1>3, <1>5
<1>6. ASSUME NEW k \in Links, NEW n \in 1 .. Len(Put(c, l, m)[k])
      PROVE  \/ n \in 1 .. Len(c[k]) /\ Put(c, l, m)[k][n] = c[k][n]
             \/ k = l /\ n = Len(c[l]) + 1 /\ Put(c, l, m)[k][n] = m
  <2>1. CASE k = l
    BY <1>4, <1>5, <1>6, <2>1
  <2>2. CASE k # l
    BY <1>4, <1>6, <2>2
  <2> QED
    BY <2>1, <2>2
<1> QED
  BY <1>4, <1>6

\* And when one is taken.
LEMMA TakeFacts ==
  ASSUME NEW S, NEW c \in [Links -> Seq(S)], NEW l \in Links, c[l] # <<>>,
         NEW d, d = [c EXCEPT ![l] = Tail(@)]
  PROVE  /\ d \in [Links -> Seq(S)]
         /\ Head(c[l]) \in S /\ 1 \in 1 .. Len(c[l]) /\ Head(c[l]) = c[l][1]
         /\ \A n \in 1 .. Len(d[l]) : n + 1 \in 1 .. Len(c[l]) /\ d[l][n] = c[l][n + 1]
         /\ \A k \in Links \ {l} : d[k] = c[k]
<1>1. c[l] \in Seq(S) /\ Len(c[l]) \in Nat /\ Len(c[l]) # 0
  BY EmptySeq
<1>2. /\ Head(c[l]) \in S /\ Tail(c[l]) \in Seq(S) /\ Len(Tail(c[l])) = Len(c[l]) - 1
      /\ \A n \in 1 .. Len(Tail(c[l])) : Tail(c[l])[n] = c[l][n + 1]
  BY <1>1, HeadTailProperties
<1>3. d \in [Links -> Seq(S)] /\ d[l] = Tail(c[l]) /\ \A k \in Links \ {l} : d[k] = c[k]
  BY <1>2
<1>4. Head(c[l]) = c[l][1]
  BY <1>1
<1> QED
  BY <1>1, <1>2, <1>3, <1>4

LEMMA TypeFacts ==
  ASSUME TypeOK
  PROVE  /\ env \in Environments /\ main \in MainState
         /\ errors \in [Cases -> {"none", "passed", "failed"}] /\ reported \in BOOLEAN
         /\ joined \subseteq Links
         /\ link \in [Links -> {"wait", "read", "ended", "failed", "panicked"}]
         /\ to \in [Links -> Seq(Message)] /\ from \in [Links -> Seq(Answered)]
         /\ told \in [Links -> {"none", "ERR", "END"}]
         /\ stream \in [Links -> {"open", "eof", "reset"}]
         /\ at_router \in Seq(Cases)
         /\ outbox \in [Links -> Seq(Packet)] /\ inbox \in [Links -> Seq(Packet)]
         /\ reply \in [Cases -> {<<>>} \cup [Links -> ReplyValues]]
BY DEF TypeOK, MainState

\* The environment stays, so the types do.
LEMMA TypeNext ==
  ASSUME TypeOK, env' = env, main' \in MainState,
         errors' \in [Cases -> {"none", "passed", "failed"}], reported' \in BOOLEAN,
         joined' \subseteq Links,
         link' \in [Links -> {"wait", "read", "ended", "failed", "panicked"}],
         to' \in [Links -> Seq(Message)], from' \in [Links -> Seq(Answered)],
         told' \in [Links -> {"none", "ERR", "END"}],
         stream' \in [Links -> {"open", "eof", "reset"}],
         at_router' \in Seq(Cases),
         outbox' \in [Links -> Seq(Packet)], inbox' \in [Links -> Seq(Packet)],
         reply' \in [Cases -> {<<>>} \cup [Links -> ReplyValues]]
  PROVE  TypeOK'
<1>1. Cases' = Cases /\ ReplyValues' = ReplyValues
  BY DEF Cases, Tests, ReplyValues
<1>2. Message' = Message /\ Answered' = Answered /\ Packet' = Packet
  BY <1>1 DEF Message, Answered, Packet
<1>3. env' \in Environments
  BY DEF TypeOK
<1> QED
  BY <1>1, <1>2, <1>3 DEF TypeOK, MainState

LEMMA MainFields ==
  ASSUME main \in MainState
  PROVE  /\ main.pc \in {"send", "recv", "report", "finish", "end", "cleanup", "done"}
         /\ main.test \in Cases /\ main.i \in 0 .. ROUTER_LINK_COUNT
         /\ main.received \in BOOLEAN /\ main.failed \in BOOLEAN
         /\ main.count \in 0 .. ROUTER_LINK_COUNT
BY DEF MainState

LEMMA ProceedType ==
  ASSUME TypeOK, NEW next \in {"recv", "end", "cleanup"}, Proceed(next)
  PROVE  main' \in MainState
<1>1. main \in MainState
  BY TypeFacts
<1>2. main.i \in Nat
  BY <1>1, LinkFacts, MainFields
<1>3. CASE main.i + 1 < ROUTER_LINK_COUNT
  <2>1. main' = [main EXCEPT !.i = main.i + 1] /\ main.i + 1 \in 0 .. ROUTER_LINK_COUNT
    BY <1>2, <1>3, LinkFacts DEF Proceed
  <2> QED
    BY <1>1, <2>1 DEF MainState
<1>4. CASE ~ (main.i + 1 < ROUTER_LINK_COUNT)
  <2>1. main' = [main EXCEPT !.i = 0, !.pc = next] /\ 0 \in 0 .. ROUTER_LINK_COUNT
    BY <1>4, LinkFacts DEF Proceed
  <2> QED
    BY <1>1, <2>1 DEF MainState
<1> QED
  BY <1>3, <1>4

LEMMA PutMain ==
  ASSUME TypeOK, NEW m \in Message
  PROVE  Put(to, main.i, m) \in [Links -> Seq(Message)]
<1>1. CASE main.i \in Links
  BY <1>1, PutFacts, TypeFacts
<1>2. CASE main.i \notin Links
  BY <1>2, TypeFacts DEF Put
<1> QED
  BY <1>1, <1>2

LEMMA LastPacketType == LastPacket \in {"ERR", "END"}
BY DEF LastPacket

LEMMA InitType == Init => TypeOK
<1> SUFFICES ASSUME Init PROVE TypeOK
  OBVIOUS
<1>1. env \in Environments
  BY DEF Init
<1>2. main \in MainState
  BY <1>1, TestFacts, LinkFacts DEF Init, Start, MainState
<1>3. \A S : <<>> \in Seq(S)
  OBVIOUS
<1>4. /\ errors \in [Cases -> {"none", "passed", "failed"}] /\ reported \in BOOLEAN
      /\ joined \subseteq Links
      /\ link \in [Links -> {"wait", "read", "ended", "failed", "panicked"}]
      /\ told \in [Links -> {"none", "ERR", "END"}]
      /\ stream \in [Links -> {"open", "eof", "reset"}]
  BY DEF Init
<1>5. /\ to \in [Links -> Seq(Message)] /\ from \in [Links -> Seq(Answered)]
      /\ at_router \in Seq(Cases)
      /\ outbox \in [Links -> Seq(Packet)] /\ inbox \in [Links -> Seq(Packet)]
  BY <1>3, Zenon DEF Init
<1>6. reply \in [Cases -> {<<>>} \cup [Links -> ReplyValues]]
  BY DEF Init
<1> QED
  BY <1>1, <1>2, <1>4, <1>5, <1>6 DEF TypeOK, MainState

\* The steps of the main thread.
LEMMA MainType == TypeOK /\ VerdictInv /\ Main => TypeOK'
<1> SUFFICES ASSUME TypeOK, VerdictInv, Main PROVE TypeOK'
  OBVIOUS
<1> USE TypeFacts
<1>0. /\ main.pc \in {"send", "recv", "report", "finish", "end", "cleanup", "done"}
      /\ main.test \in Cases /\ main.i \in 0 .. ROUTER_LINK_COUNT
      /\ main.count \in 0 .. ROUTER_LINK_COUNT /\ 0 \in 0 .. ROUTER_LINK_COUNT
  BY MainFields, LinkFacts
<1>1. CASE MainSend
  <2>1. to' \in [Links -> Seq(Message)]
    BY <1>0, <1>1, PutMain, Messages DEF MainSend
  <2>2. main' \in MainState
    BY <1>1, ProceedType DEF MainSend
  <2> QED
    BY <1>1, <2>1, <2>2, TypeNext DEF MainSend, verdicts, router
<1>2. CASE MainRecv
  <2> DEFINE l == main.i
             m == Head(from[l])
             received == main.received \/ m.kind = "packet" \/ (m.kind = "error" /\ Expects(main.test, l))
             failed   == main.failed \/ Bad(m, main.test, l)
             count    == IF m.kind = "packet" /\ Expects(main.test, l) THEN main.count + 1 ELSE main.count
  <2>1. l \in Links /\ from[l] # <<>>
    BY <1>0, <1>2, LinkFacts DEF MainRecv
  <2>2. from' \in [Links -> Seq(Answered)]
    BY <1>2, <2>1, TakeFacts DEF MainRecv
  <2>3. errors' \in [Cases -> {"none", "passed", "failed"}]
    BY <1>2 DEF MainRecv
  <2>4. main.i + 1 \in 0 .. ROUTER_LINK_COUNT /\ count \in 0 .. ROUTER_LINK_COUNT
    <3>1. main.count <= main.i
      BY <1>2 DEF MainRecv, VerdictInv
    <3> QED
      BY <1>0, <2>1, <3>1, LinkFacts
  <2>5. received \in BOOLEAN /\ failed \in BOOLEAN
    BY MainFields, Zenon
  <2>6. main' = [main EXCEPT !.i = main.i + 1, !.received = received, !.count = count, !.failed = failed]
    BY <1>2 DEF MainRecv
  <2> HIDE DEF received, failed, count
  <2>7. main' \in MainState
    BY <2>4, <2>5, <2>6 DEF MainState
  <2> QED
    BY <1>2, <2>2, <2>3, <2>7, TypeNext DEF MainRecv, router
<1>3. CASE MainJudge
  <2>1. errors' \in [Cases -> {"none", "passed", "failed"}]
    BY <1>3 DEF MainJudge, Verdict
  <2>2. main' \in MainState
    <3>1. CASE main.test < Len(Tests)
      <4>1. main.test + 1 \in Cases
        <5>1. main.test \in Nat /\ Len(Tests) \in Nat /\ 1 <= main.test
          BY <1>0, TestFacts
        <5> QED
          BY <3>1, <5>1 DEF Cases
      <4> QED
        BY <1>0, <1>3, <3>1, <4>1 DEF MainJudge, Start, MainState
    <3>2. CASE ~ (main.test < Len(Tests))
      BY <1>3, <3>2 DEF MainJudge, MainState
    <3> QED
      BY <3>1, <3>2
  <2> QED
    BY <1>3, <2>1, <2>2, TypeNext DEF MainJudge, channels, router
<1>4. CASE MainReport
  <2>1. main' \in MainState
    BY <1>0, <1>4 DEF MainReport, MainState
  <2> QED
    BY <1>4, <2>1, TypeNext DEF MainReport, channels, router
<1>5. CASE MainFinish
  <2>1. to' \in [Links -> Seq(Message)]
    BY <1>5, PutMain, Messages, LastPacketType DEF MainFinish
  <2>2. main' \in MainState
    BY <1>5, ProceedType DEF MainFinish
  <2> QED
    BY <1>5, <2>1, <2>2, TypeNext DEF MainFinish, verdicts, router
<1>6. CASE MainEnd
  <2>1. to' \in [Links -> Seq(Message)]
    BY <1>6, PutMain, Messages DEF MainEnd
  <2>2. main' \in MainState
    BY <1>6, ProceedType DEF MainEnd
  <2> QED
    BY <1>6, <2>1, <2>2, TypeNext DEF MainEnd, verdicts, router
<1>7. CASE MainAbort \/ MainDone
  <2>1. main' \in MainState
    BY <1>7 DEF MainAbort, MainDone, MainState
  <2> QED
    BY <1>7, <2>1, TypeNext DEF MainAbort, MainDone, verdicts, channels, router
<1>8. ASSUME NEW l \in Links, MainJoin(l) PROVE TypeOK'
  <2>1. to' \in [Links -> Seq(Message)]
    <3>1. \A k \in Links : to[k] \in Seq(Message) /\ Append(to[k], [kind |-> "end"]) \in Seq(Message)
      BY Messages, AppendProperties
    <3> QED
      BY <1>8, <3>1 DEF MainJoin
  <2> QED
    BY <1>8, <2>1, TypeNext DEF MainJoin, verdicts, router
<1> QED
  BY <1>1, <1>2, <1>3, <1>4, <1>5, <1>6, <1>7, <1>8 DEF Main

\* The steps of the link threads.
LEMMA LinkTakeType ==
  ASSUME TypeOK, NEW l \in Links, LinkTake(l)
  PROVE  TypeOK'
<1> DEFINE m == Head(to[l])
<1> USE TypeFacts
<1>1. to' \in [Links -> Seq(Message)] /\ m \in Message
  BY TakeFacts DEF LinkTake
<1>2. link' \in [Links -> {"wait", "read", "ended", "failed", "panicked"}]
  BY DEF LinkTake, Move
<1>3. at_router' \in Seq(Cases)
  <2>1. CASE m.kind = "active"
    <3>1. m.test \in Cases
      BY <1>1, <2>1, MessageFacts
    <3>2. Append(at_router, m.test) \in Seq(Cases)
      BY <3>1, AppendProperties
    <3> QED
      BY <3>2 DEF LinkTake
  <2>2. CASE m.kind # "active"
    BY <2>2 DEF LinkTake
  <2> QED
    BY <2>1, <2>2
<1>4. told' \in [Links -> {"none", "ERR", "END"}]
  BY <1>1, MessageFacts DEF LinkTake
<1> QED
  BY <1>1, <1>2, <1>3, <1>4, TypeNext DEF LinkTake, verdicts

\* An answer to the main thread.
LEMMA AnswerType ==
  ASSUME TypeOK, NEW l \in Links, NEW m \in Answered, Answer(l, m)
  PROVE  /\ from' \in [Links -> Seq(Answered)]
         /\ link' \in [Links -> {"wait", "read", "ended", "failed", "panicked"}]
<1> USE TypeFacts
<1>1. from' = Put(from, l, m) /\ link' = [link EXCEPT ![l] = "wait"]
  BY DEF Answer, Move
<1> QED
  BY <1>1, PutFacts

LEMMA PacketFacts ==
  ASSUME TypeOK, NEW p \in Packet
  PROVE  p.test \in Cases /\ p.value \in {"right", "wrong", "short"}
BY TypeFacts, TestFacts DEF Packet

LEMMA LinkType ==
  ASSUME TypeOK, NEW l \in Links, Link(l)
  PROVE  TypeOK'
<1> USE TypeFacts
<1>1. CASE LinkTake(l)
  BY <1>1, LinkTakeType
<1>2. CASE LinkRead(l)
  <2> DEFINE p == Head(inbox[l])
  <2>1. inbox' \in [Links -> Seq(Packet)]
    BY <1>2 DEF LinkRead
  <2>2. p \in Packet
    BY <1>2, TakeFacts DEF LinkRead
  <2>3. /\ from' \in [Links -> Seq(Answered)]
        /\ link' \in [Links -> {"wait", "read", "ended", "failed", "panicked"}]
    <3>1. CASE Len(inbox[l]) = 1 /\ p.value # "short"
               /\ Answer(l, [kind |-> "packet", test |-> p.test, value |-> p.value])
      <4>1. [kind |-> "packet", test |-> p.test, value |-> p.value] \in Answered
        BY <2>2, <3>1, PacketFacts, Answers
      <4> QED
        BY <3>1, <4>1, AnswerType
    <3>2. CASE Answer(l, [kind |-> "error"])
      BY <3>2, AnswerType, Answers
    <3>3. CASE Move(l, "panicked") /\ UNCHANGED from
      BY <3>3 DEF Move
    <3> QED
      BY <1>2, <3>1, <3>2, <3>3 DEF LinkRead
  <2> QED
    BY <1>2, <2>1, <2>3, TypeNext DEF LinkRead, verdicts, router
<1>3. CASE LinkTimeout(l)
  <2>1. /\ from' \in [Links -> Seq(Answered)]
        /\ link' \in [Links -> {"wait", "read", "ended", "failed", "panicked"}]
    BY <1>3, AnswerType, Answers DEF LinkTimeout
  <2> QED
    BY <1>3, <2>1, TypeNext DEF LinkTimeout, verdicts, router
<1>4. CASE LinkEof(l)
  <2>1. /\ from' \in [Links -> Seq(Answered)]
        /\ link' \in [Links -> {"wait", "read", "ended", "failed", "panicked"}]
    BY <1>4, AnswerType, Answers DEF LinkEof
  <2> QED
    BY <1>4, <2>1, TypeNext DEF LinkEof, verdicts, router
<1>5. CASE LinkReset(l)
  <2>1. link' \in [Links -> {"wait", "read", "ended", "failed", "panicked"}]
    BY <1>5 DEF LinkReset, Move
  <2> QED
    BY <1>5, <2>1, TypeNext DEF LinkReset, verdicts, channels, router
<1> QED
  BY <1>1, <1>2, <1>3, <1>4, <1>5 DEF Link

\* The steps of the router and of the network.
LEMMA OutboxFacts ==
  ASSUME TypeOK, at_router # <<>>, NEW r \in [Links -> ReplyValues],
         outbox' = [l \in Links |->
            IF r[l] = "none" THEN outbox[l]
            ELSE Append(outbox[l], [test |-> Head(at_router), value |-> r[l]])]
  PROVE  /\ outbox' \in [Links -> Seq(Packet)]
         /\ \A l \in Links : \A n \in 1 .. Len(outbox'[l]) :
              \/ n \in 1 .. Len(outbox[l]) /\ outbox'[l][n] = outbox[l][n]
              \/ outbox'[l][n] = [test |-> Head(at_router), value |-> r[l]]
<1> USE TypeFacts
<1>1. Head(at_router) \in Cases
  BY HeadTailProperties
<1>2. ASSUME NEW l \in Links
      PROVE  /\ outbox'[l] \in Seq(Packet)
             /\ \A n \in 1 .. Len(outbox'[l]) :
                  \/ n \in 1 .. Len(outbox[l]) /\ outbox'[l][n] = outbox[l][n]
                  \/ outbox'[l][n] = [test |-> Head(at_router), value |-> r[l]]
  <2>1. CASE r[l] = "none"
    BY <2>1
  <2>2. CASE r[l] # "none"
    <3> DEFINE p == [test |-> Head(at_router), value |-> r[l]]
    <3>1. p \in Packet
      BY <1>1, <2>2 DEF Packet
    <3>2. outbox'[l] = Append(outbox[l], p) /\ outbox[l] \in Seq(Packet)
      BY <2>2
    <3> HIDE DEF p
    <3>3. /\ Append(outbox[l], p) \in Seq(Packet) /\ Len(Append(outbox[l], p)) = Len(outbox[l]) + 1
          /\ \A n \in 1 .. Len(outbox[l]) : Append(outbox[l], p)[n] = outbox[l][n]
          /\ Append(outbox[l], p)[Len(outbox[l]) + 1] = p
      BY <3>1, <3>2, AppendProperties
    <3>4. Len(outbox[l]) \in Nat
      BY <3>2
    <3>5. \A n \in 1 .. Len(outbox'[l]) :
            (n \in 1 .. Len(outbox[l]) /\ outbox'[l][n] = outbox[l][n]) \/ outbox'[l][n] = p
      BY <3>2, <3>3, <3>4
    <3> QED
      BY <3>2, <3>3, <3>5 DEF p
  <2> QED
    BY <2>1, <2>2
<1> QED
  BY <1>2

LEMMA NetworkType ==
  ASSUME TypeOK, Network \/ \E l \in Links : Break(l)
  PROVE  TypeOK'
<1> USE TypeFacts
<1>1. CASE RouterReply
  <2>1. PICK r \in [Links -> ReplyValues] :
          /\ reply' = [reply EXCEPT ![Head(at_router)] = r]
          /\ outbox' = [l \in Links |->
               IF r[l] = "none" THEN outbox[l]
               ELSE Append(outbox[l], [test |-> Head(at_router), value |-> r[l]])]
    BY <1>1 DEF RouterReply
  <2>2. outbox' \in [Links -> Seq(Packet)]
    BY <1>1, <2>1, OutboxFacts DEF RouterReply
  <2>3. at_router' \in Seq(Cases)
    BY <1>1, HeadTailProperties DEF RouterReply
  <2>4. reply' \in [Cases -> {<<>>} \cup [Links -> ReplyValues]]
    BY <2>1
  <2> QED
    BY <1>1, <2>2, <2>3, <2>4, TypeNext DEF RouterReply, verdicts, channels
<1>2. ASSUME NEW l \in Links, Arrive(l) PROVE TypeOK'
  <2>1. outbox' \in [Links -> Seq(Packet)] /\ Head(outbox[l]) \in Packet
    BY <1>2, TakeFacts DEF Arrive
  <2>2. inbox' \in [Links -> Seq(Packet)]
    BY <1>2, <2>1, PutFacts DEF Arrive
  <2> QED
    BY <1>2, <2>1, <2>2, TypeNext DEF Arrive, verdicts, channels
<1>3. ASSUME NEW l \in Links, Break(l) PROVE TypeOK'
  <2>1. env.breaks \subseteq {"eof", "reset"}
    BY SimulationAssumption DEF IsEnvironment
  <2>2. stream' \in [Links -> {"open", "eof", "reset"}]
    BY <1>3, <2>1 DEF Break
  <2> QED
    BY <1>3, <2>2, TypeNext DEF Break, verdicts, channels, router
<1> QED
  BY <1>1, <1>2, <1>3 DEF Network

LEMMA StutterType ==
  ASSUME TypeOK, UNCHANGED vars
  PROVE  TypeOK'
BY TypeFacts, TypeNext DEF vars, verdicts, channels, router

-----------------------------------------------------------------------------
(* Verdicts: only the main thread touches them. *)

LEMMA Untouched ==
  ASSUME VerdictInv, UNCHANGED <<env, main, errors>>
  PROVE  VerdictInv'
BY DEF VerdictInv, Met, Cases, Tests

\* Having heard of link i, the main thread has met one link more at most.
LEMMA MetGrows ==
  ASSUME TypeOK, NEW i \in Links, NEW k \in Cases
  PROVE  LET R    == Tests[k].recv_links
             Upto(j) == {l \in R : l < j} IN
         /\ Cardinality(Upto(i)) \in Nat
         /\ Cardinality(Upto(i + 1)) =
              IF i \in R THEN Cardinality(Upto(i)) + 1 ELSE Cardinality(Upto(i))
<1> DEFINE R    == Tests[k].recv_links
           Upto(j) == {l \in R : l < j}
<1>1. R \subseteq Links /\ Links \subseteq Int
  BY TypeFacts, TestFacts, LinkFacts
<1>2. IsFiniteSet(Upto(i))
  <2>1. IsFiniteSet(0 .. i)
    BY <1>1, FS_Interval
  <2>2. Upto(i) \in SUBSET (0 .. i)
    BY <1>1, LinkFacts
  <2> QED
    BY <2>1, <2>2, FS_Subset
<1>3. Upto(i + 1) = IF i \in R THEN Upto(i) \cup {i} ELSE Upto(i)
  <2>1. ASSUME NEW l \in R PROVE l < i + 1 <=> (l < i \/ l = i)
    <3>1. l \in Int /\ i \in Int
      BY <1>1
    <3> QED
      BY <3>1
  <2>2. CASE i \in R
    <3>1. \A l : l \in Upto(i + 1) <=> l \in Upto(i) \/ l = i
      BY <1>1, <2>1, <2>2
    <3> HIDE DEF Upto
    <3> QED
      BY <2>2, <3>1
  <2>3. CASE i \notin R
    BY <2>1, <2>3
  <2> QED
    BY <2>2, <2>3
<1>4. i \notin Upto(i)
  BY <1>1
<1>5. Cardinality(Upto(i)) \in Nat
  BY <1>2, FS_CardinalityType
<1>6. i \in R => Cardinality(Upto(i) \cup {i}) = Cardinality(Upto(i)) + 1
  BY <1>2, <1>4, FS_AddElement
<1> QED
  BY <1>3, <1>5, <1>6

\* At the end of a test the main thread has met all links it expects.
LEMMA MetAll ==
  ASSUME TypeOK, main.i = ROUTER_LINK_COUNT
  PROVE  /\ Met = Tests[main.test].recv_links /\ Cardinality(Met) \in Nat
         /\ Cardinality(Met) # 0 => Met # {}
<1>1. Tests[main.test].recv_links \subseteq Links
  BY TypeFacts, MainFields, TestFacts
<1>2. Met = Tests[main.test].recv_links
  BY <1>1, LinkFacts DEF Met
<1>3. IsFiniteSet(Met)
  <2>1. IsFiniteSet(0 .. ROUTER_LINK_COUNT - 1)
    BY LinkFacts, FS_Interval
  <2> QED
    BY <1>1, <1>2, <2>1, FS_Subset DEF Links
<1> QED
  BY <1>2, <1>3, FS_CardinalityType, FS_EmptySet

LEMMA RecvVerdict ==
  ASSUME TypeOK, VerdictInv, MainRecv
  PROVE  VerdictInv'
<1> DEFINE l == main.i
           k == main.test
           m == Head(from[l])
           R == Tests[k].recv_links
           Upto(j) == {x \in R : x < j}
<1>1. /\ l \in Links /\ k \in Cases /\ from[l] # <<>> /\ main.pc = "recv"
      /\ main \in MainState /\ main.count \in Nat /\ l \in Nat
  BY TypeFacts, MainFields, LinkFacts DEF MainRecv
<1>2. m \in Answered
  BY <1>1, TypeFacts, TakeFacts
<1>3. /\ env' = env /\ main'.pc = "recv" /\ main'.test = k /\ main'.i = l + 1
      /\ main'.count = IF m.kind = "packet" /\ l \in R THEN main.count + 1 ELSE main.count
      /\ Met = Upto(l) /\ Met' = Upto(l + 1)
  BY <1>1 DEF MainRecv, MainState, Expects, Met, Tests
<1>4. /\ main'.failed => main.failed \/ Bad(m, k, l)
      /\ errors' = IF Inserted(m, k, l) THEN [errors EXCEPT ![k] = "failed"] ELSE errors
  BY <1>1 DEF MainRecv, MainState
<1>5. /\ Cardinality(Upto(l)) \in Nat
      /\ Cardinality(Upto(l + 1)) =
           IF l \in R THEN Cardinality(Upto(l)) + 1 ELSE Cardinality(Upto(l))
  BY <1>1, MetGrows
<1>6. /\ main.count <= l /\ main.count <= Cardinality(Upto(l))
      /\ main.failed /\ errors[k] = "none" => main.count < Cardinality(Upto(l))
  BY <1>1, <1>3 DEF VerdictInv
<1>7. \A t \in Cases : t < k => errors'[t] # "none"
  BY <1>1, <1>4, TypeFacts DEF VerdictInv
<1>8. main'.count <= main'.i /\ main'.count <= Cardinality(Upto(l + 1))
  BY <1>1, <1>3, <1>5, <1>6
<1>9. ASSUME main'.failed, errors'[k] = "none"
      PROVE  main'.count < Cardinality(Upto(l + 1))
  <2>1. ~ Inserted(m, k, l) /\ errors[k] = "none"
    BY <1>1, <1>4, <1>9, TypeFacts
  <2>2. CASE Bad(m, k, l)
    <3>1. m.kind = "inactive" /\ l \in R
      BY <2>1, <2>2 DEF Inserted, Expects
    <3> QED
      BY <1>1, <1>3, <1>5, <1>6, <3>1
  <2>3. CASE main.failed
    BY <1>1, <1>3, <1>5, <1>6, <2>1, <2>3
  <2> QED
    BY <1>4, <1>9, <2>2, <2>3
<1>10. Cases' = Cases
  BY <1>3 DEF Cases, Tests
<1> HIDE DEF Upto, R, m
<1> QED
  BY <1>3, <1>7, <1>8, <1>9, <1>10 DEF VerdictInv

LEMMA JudgeVerdict ==
  ASSUME TypeOK, VerdictInv, MainJudge
  PROVE  VerdictInv'
<1> DEFINE k == main.test
<1>1. /\ k \in Cases /\ main \in MainState /\ main.pc = "recv" /\ main.i = ROUTER_LINK_COUNT
      /\ main.count \in Nat /\ k \in Nat
  BY TypeFacts, MainFields, LinkFacts, TestFacts DEF MainJudge
<1>2. errors'[k] # "none" /\ \A t \in Cases \ {k} : errors'[t] = errors[t]
  <2>1. /\ Met = Tests[k].recv_links /\ Cardinality(Met) \in Nat
        /\ Cardinality(Met) # 0 => Met # {}
    BY <1>1, MetAll
  <2>2. main.failed /\ errors[k] = "none" => Incomplete(k)
    BY <1>1, <2>1 DEF VerdictInv, Incomplete
  <2> QED
    BY <1>1, <2>2, TypeFacts DEF MainJudge, Verdict
<1>3. Cases' = Cases
  BY DEF MainJudge, Cases, Tests
<1>4. CASE k < Len(Tests)
  <2>1. main' = Start(k + 1)
    BY <1>4 DEF MainJudge
  <2>2. main'.pc = "send" /\ main'.count = 0 /\ ~ main'.failed /\ main'.test = k + 1
    BY <2>1 DEF Start
  <2>3. ASSUME NEW t \in Cases, t < k + 1 PROVE errors'[t] # "none"
    <3>1. t \in Nat
      BY TestFacts, TypeFacts
    <3>2. t < k => errors[t] # "none"
      BY DEF VerdictInv
    <3> QED
      BY <1>1, <1>2, <2>3, <3>1, <3>2
  <2> QED
    BY <1>3, <2>2, <2>3 DEF VerdictInv
<1>5. CASE ~ (k < Len(Tests))
  <2>1. main'.pc = "report" /\ main'.test = k
    BY <1>1, <1>5 DEF MainJudge, MainState
  <2>2. \A t \in Cases : t < k \/ t = k
    BY <1>1, <1>5, TestFacts, TypeFacts
  <2>3. \A t \in Cases : errors'[t] # "none"
    BY <1>2, <2>2 DEF VerdictInv
  <2> QED
    BY <1>3, <2>1, <2>3 DEF VerdictInv
<1> QED
  BY <1>4, <1>5

LEMMA ProceedFields ==
  ASSUME TypeOK, NEW next \in {"recv", "end", "cleanup"}, Proceed(next)
  PROVE  /\ \/ main'.pc = main.pc /\ main'.i = main.i + 1
            \/ main'.pc = next /\ main'.i = 0
         /\ main'.test = main.test /\ main'.count = main.count /\ main'.failed = main.failed
BY TypeFacts DEF Proceed, MainState

LEMMA SendVerdict ==
  ASSUME TypeOK, VerdictInv, MainSend
  PROVE  VerdictInv'
<1>1. /\ main'.pc = "send" \/ (main'.pc = "recv" /\ main'.i = 0)
      /\ main'.test = main.test /\ main'.count = main.count /\ main'.failed = main.failed
  <2>1. Proceed("recv") /\ main.pc = "send"
    BY DEF MainSend
  <2> QED
    BY <2>1, ProceedFields
<1>2. main.pc = "send" /\ main.count = 0 /\ ~ main.failed
  BY DEF MainSend, VerdictInv
<1>3. ~ main'.failed
  BY <1>1, <1>2
<1>4. UNCHANGED <<env, errors>> /\ Cases' = Cases
  BY DEF MainSend, verdicts, Cases, Tests
<1>5. main'.pc = "recv" => main'.count <= Cardinality(Met')
  <2>1. ASSUME main'.pc = "recv" PROVE Met' = {}
    <3>1. Tests' = Tests /\ Tests[main.test].recv_links \subseteq Nat /\ main'.i = 0
      BY <1>1, <1>4, <2>1, TypeFacts, MainFields, TestFacts, LinkFacts DEF Tests
    <3> QED
      BY <1>1, <3>1 DEF Met
  <2> QED
    BY <1>1, <1>2, <2>1, FS_EmptySet
<1>6. main'.pc = "recv" => main'.count <= main'.i
  BY <1>1, <1>2
<1>7. \A t \in Cases : t < main.test => errors'[t] # "none"
  BY <1>4 DEF VerdictInv
<1> QED
  BY <1>1, <1>2, <1>3, <1>4, <1>5, <1>6, <1>7 DEF VerdictInv

LEMMA EndingVerdict ==
  ASSUME TypeOK, VerdictInv,
         MainReport \/ MainFinish \/ MainEnd \/ MainAbort \/ MainDone
  PROVE  VerdictInv'
<1>1. UNCHANGED <<env, errors>> /\ Cases' = Cases
  BY DEF MainReport, MainFinish, MainEnd, MainAbort, MainDone, verdicts, Cases, Tests
<1>2. main'.test = main.test /\ main'.pc \in {"finish", "end", "cleanup", "done"}
  BY TypeFacts, ProceedFields
     DEF MainReport, MainFinish, MainEnd, MainAbort, MainDone, MainState
<1>3. main'.pc \in {"finish", "end"} => main.pc \in {"report", "finish", "end"}
  BY TypeFacts, ProceedFields
     DEF MainReport, MainFinish, MainEnd, MainAbort, MainDone, MainState
<1>4. \A t \in Cases : t < main'.test \/ main'.pc \in {"report", "finish", "end"} => errors'[t] # "none"
  BY <1>1, <1>2, <1>3 DEF VerdictInv
<1> QED
  BY <1>1, <1>2, <1>4 DEF VerdictInv

LEMMA StepVerdict ==
  ASSUME TypeOK, VerdictInv, [Next]_vars
  PROVE  VerdictInv'
<1>1. CASE MainSend \/ MainRecv \/ MainJudge \/ MainReport \/ MainFinish \/ MainEnd \/ MainAbort \/ MainDone
  BY <1>1, SendVerdict, RecvVerdict, JudgeVerdict, EndingVerdict
<1>2. ASSUME NEW l \in Links, MainJoin(l) PROVE VerdictInv'
  BY <1>2, Untouched DEF MainJoin, verdicts
<1>3. CASE Network
  BY <1>3, Untouched DEF Network, RouterReply, Arrive, verdicts
<1>4. ASSUME NEW l \in Links, Link(l) \/ Break(l) PROVE VerdictInv'
  BY <1>4, Untouched
     DEF Link, LinkTake, LinkRead, LinkTimeout, LinkEof, LinkReset, Break, verdicts
<1>5. CASE UNCHANGED vars
  BY <1>5, Untouched DEF vars, verdicts
<1> QED
  BY <1>1, <1>2, <1>3, <1>4, <1>5 DEF Next, Main

LEMMA InitVerdict == Init => VerdictInv
<1> SUFFICES ASSUME Init PROVE VerdictInv
  OBVIOUS
<1>1. main.pc = "send" /\ main.test = 1 /\ main.count = 0 /\ ~ main.failed
  BY DEF Init, Start
<1>2. \A k \in Cases : ~ (k < 1)
  BY TestFacts DEF Init
<1> QED
  BY <1>1, <1>2 DEF VerdictInv

-----------------------------------------------------------------------------
(* What links are told. *)

LEMMA EnvStays == [Next]_vars => env' = env
BY DEF Next, Main, MainSend, MainRecv, MainJudge, MainReport, MainFinish, MainEnd, MainAbort,
       MainJoin, MainDone, Network, RouterReply, Arrive, Link, LinkTake, LinkRead,
       LinkTimeout, LinkEof, LinkReset, Break, vars

\* Verdicts that have been reported stay.
LEMMA Settled ==
  ASSUME TypeOK, ToldInv, [Next]_vars
  PROVE  env' = env /\ (reported => errors' = errors /\ reported' /\ LastPacket' = LastPacket)
<1>1. reported => main.pc \in {"finish", "end", "cleanup", "done"}
  BY DEF ToldInv
<1>2. CASE MainSend \/ MainRecv \/ MainJudge \/ MainReport \/ MainFinish \/ MainEnd \/ MainAbort \/ MainDone
  <2>1. env' = env /\ (reported => errors' = errors /\ reported')
    BY <1>1, <1>2 DEF MainSend, MainRecv, MainJudge, MainReport, MainFinish, MainEnd,
                      MainAbort, MainDone, verdicts
  <2> QED
    BY <2>1 DEF LastPacket, Cases, Tests
<1>3. ASSUME UNCHANGED <<env, verdicts>>
      PROVE  env' = env /\ (reported => errors' = errors /\ reported' /\ LastPacket' = LastPacket)
  BY <1>3 DEF verdicts, LastPacket, Cases, Tests
<1>4. ASSUME NEW l \in Links, MainJoin(l) PROVE UNCHANGED <<env, verdicts>>
  BY <1>4 DEF MainJoin
<1>5. CASE Network
  BY <1>3, <1>5 DEF Network, RouterReply, Arrive
<1>6. ASSUME NEW l \in Links, Link(l) \/ Break(l) PROVE UNCHANGED <<env, verdicts>>
  BY <1>6 DEF Link, LinkTake, LinkRead, LinkTimeout, LinkEof, LinkReset, Break
<1>7. CASE UNCHANGED vars
  BY <1>3, <1>7 DEF vars
<1> QED
  BY <1>2, <1>3, <1>4, <1>5, <1>6, <1>7 DEF Next, Main

LEMMA ToldPlace ==
  ASSUME TypeOK, ToldInv, [Next]_vars
  PROVE  /\ main'.pc \in {"finish", "end"} => reported'
         /\ reported' => main'.pc \in {"finish", "end", "cleanup", "done"}
                         /\ \A k \in Cases' : errors'[k] # "none"
<1>1. /\ main.pc \in {"finish", "end"} => reported
      /\ reported => main.pc \in {"finish", "end", "cleanup", "done"}
                     /\ \A k \in Cases : errors[k] # "none"
  BY DEF ToldInv
<1>2. env' = env /\ Cases' = Cases /\ (reported => errors' = errors)
  BY Settled DEF Cases, Tests
<1>3. CASE MainReport
  BY <1>2, <1>3, TypeFacts DEF MainReport, MainState
<1>4. CASE MainSend \/ MainFinish \/ MainEnd
  <2>1. PICK next \in {"recv", "end", "cleanup"} :
          Proceed(next) /\ ((main.pc = "send" /\ next = "recv") \/ reported)
    BY <1>1, <1>4 DEF MainSend, MainFinish, MainEnd
  <2> QED
    BY <1>1, <1>2, <1>4, <2>1, ProceedFields DEF MainSend, MainFinish, MainEnd, verdicts
<1>5. CASE MainRecv \/ MainJudge
  <2>1. main'.pc \in {"recv", "send", "report"} /\ reported' = reported /\ main.pc = "recv"
    <3>1. CASE MainRecv
      BY <3>1, TypeFacts DEF MainRecv, MainState
    <3>2. CASE MainJudge
      <4>1. main.pc = "recv" /\ reported' = reported
            /\ (main' = Start(main.test + 1) \/ main' = [main EXCEPT !.pc = "report"])
        BY <3>2 DEF MainJudge
      <4>2. Start(main.test + 1).pc = "send" /\ [main EXCEPT !.pc = "report"].pc = "report"
        BY TypeFacts DEF Start, MainState
      <4> QED
        BY <4>1, <4>2
    <3> QED
      BY <1>5, <3>1, <3>2
  <2> QED
    BY <1>1, <2>1
<1>6. CASE MainAbort \/ MainDone
  <2>1. main'.pc \in {"cleanup", "done"} /\ reported' = reported
    BY <1>6, TypeFacts DEF MainAbort, MainDone, MainState, verdicts
  <2> QED
    BY <1>1, <1>2, <2>1
<1>7. ASSUME UNCHANGED <<main, reported>>
      PROVE  /\ main'.pc \in {"finish", "end"} => reported'
             /\ reported' => main'.pc \in {"finish", "end", "cleanup", "done"}
                             /\ \A k \in Cases' : errors'[k] # "none"
  BY <1>1, <1>2, <1>7
<1>8. ASSUME NEW l \in Links, MainJoin(l) PROVE UNCHANGED <<main, reported>>
  BY <1>8 DEF MainJoin, verdicts
<1>9. CASE Network
  BY <1>7, <1>9 DEF Network, RouterReply, Arrive, verdicts
<1>10. ASSUME NEW l \in Links, Link(l) \/ Break(l) PROVE UNCHANGED <<main, reported>>
  BY <1>10 DEF Link, LinkTake, LinkRead, LinkTimeout, LinkEof, LinkReset, Break, verdicts
<1>11. CASE UNCHANGED vars
  BY <1>7, <1>11 DEF vars, verdicts
<1> QED
  BY <1>3, <1>4, <1>5, <1>6, <1>7, <1>8, <1>9, <1>10, <1>11 DEF Next, Main

\* A message that the main thread puts in the channel of its link.
LEMMA PutMainFacts ==
  ASSUME TypeOK, NEW m \in Message, NEW l \in Links, NEW n \in 1 .. Len(Put(to, main.i, m)[l])
  PROVE  \/ n \in 1 .. Len(to[l]) /\ Put(to, main.i, m)[l][n] = to[l][n]
         \/ l = main.i /\ n = Len(to[l]) + 1 /\ Put(to, main.i, m)[l][n] = m
<1>1. CASE main.i \in Links
  <2> DEFINE i == main.i
  <2>1. to \in [Links -> Seq(Message)] /\ i \in Links /\ n \in 1 .. Len(Put(to, i, m)[l])
    BY <1>1, TypeFacts
  <2> HIDE DEF i
  <2>2. \/ n \in 1 .. Len(to[l]) /\ Put(to, i, m)[l][n] = to[l][n]
        \/ l = i /\ n = Len(to[i]) + 1 /\ Put(to, i, m)[l][n] = m
    BY <2>1, PutFacts
  <2> QED
    BY <2>2 DEF i
<1>2. CASE main.i \notin Links
  BY <1>2, TypeFacts DEF Put
<1> QED
  BY <1>1, <1>2

\* What is on the way to a link thread about the verdict is true.
LEMMA ToldOnTheWay ==
  ASSUME TypeOK, ToldInv, [Next]_vars,
         NEW l \in Links, NEW n \in 1 .. Len(to'[l]), to'[l][n].kind = "noresponse"
  PROVE  reported /\ to'[l][n].packet = LastPacket
<1>1. ASSUME NEW k \in 1 .. Len(to[l]), to'[l][n] = to[l][k]
      PROVE  reported /\ to'[l][n].packet = LastPacket
  BY <1>1 DEF ToldInv
<1>2. CASE MainSend \/ MainFinish \/ MainEnd
  <2>1. PICK m \in Message :
          to' = Put(to, main.i, m)
          /\ (m.kind = "noresponse" => reported /\ m.packet = LastPacket)
    <3>1. CASE MainSend
      BY <3>1, Messages, TypeFacts, MainFields DEF MainSend
    <3>2. CASE MainFinish
      BY <3>2, Messages, LastPacketType DEF MainFinish, ToldInv
    <3>3. CASE MainEnd
      BY <3>3, Messages DEF MainEnd
    <3> QED
      BY <1>2, <3>1, <3>2, <3>3
  <2>2. to'[l][n] = m \/ (n \in 1 .. Len(to[l]) /\ to'[l][n] = to[l][n])
    BY <2>1, PutMainFacts
  <2> QED
    BY <1>1, <2>1, <2>2
<1>3. ASSUME to' = to PROVE reported /\ to'[l][n].packet = LastPacket
  BY <1>1, <1>3
<1>4. CASE MainRecv \/ MainJudge \/ MainReport \/ MainAbort \/ MainDone
  BY <1>3, <1>4 DEF MainRecv, MainJudge, MainReport, MainAbort, MainDone, channels
<1>5. ASSUME NEW k \in Links, MainJoin(k)
      PROVE  reported /\ to'[l][n].packet = LastPacket
  <2> DEFINE e == [kind |-> "end"]
  <2>1. to[l] \in Seq(Message) /\ e \in Message /\ e.kind # "noresponse"
    BY TypeFacts, Messages
  <2>2. to'[l] = Append(to[l], e) \/ to'[l] = to[l]
    BY <1>5 DEF MainJoin
  <2> HIDE DEF e
  <2>3. \/ n \in 1 .. Len(to[l]) /\ to'[l][n] = to[l][n]
        \/ to'[l][n] = e
    BY <2>1, <2>2
  <2> QED
    BY <1>1, <2>1, <2>3
<1>6. ASSUME NEW k \in Links, LinkTake(k)
      PROVE  reported /\ to'[l][n].packet = LastPacket
  <2>1. to \in [Links -> Seq(Message)] /\ to[k] # <<>> /\ to' = [to EXCEPT ![k] = Tail(@)]
    BY <1>6, TypeFacts DEF LinkTake
  <2>2. /\ \A j \in 1 .. Len(to'[k]) : j + 1 \in 1 .. Len(to[k]) /\ to'[k][j] = to[k][j + 1]
        /\ \A i \in Links \ {k} : to'[i] = to[i]
    BY <2>1, TakeFacts
  <2> QED
    BY <1>1, <2>2
<1>7. CASE Network
  BY <1>3, <1>7 DEF Network, RouterReply, Arrive, channels
<1>8. ASSUME NEW k \in Links,
             LinkRead(k) \/ LinkTimeout(k) \/ LinkEof(k) \/ LinkReset(k) \/ Break(k)
      PROVE  to' = to
  BY <1>8 DEF LinkRead, LinkTimeout, LinkEof, LinkReset, Break, channels
<1>9. CASE UNCHANGED vars
  BY <1>3, <1>9 DEF vars, channels
<1> QED
  BY <1>2, <1>3, <1>4, <1>5, <1>6, <1>7, <1>8, <1>9 DEF Next, Main, Link

LEMMA ToldWritten ==
  ASSUME TypeOK, ToldInv, [Next]_vars, NEW l \in Links, told'[l] # "none"
  PROVE  reported /\ told'[l] = LastPacket
<1>1. ASSUME told'[l] = told[l] PROVE reported /\ told'[l] = LastPacket
  BY <1>1 DEF ToldInv
<1>2. ASSUME NEW k \in Links, LinkTake(k) PROVE reported /\ told'[l] = LastPacket
  <2>1. /\ 1 \in 1 .. Len(to[k]) /\ Head(to[k]) = to[k][1]
    <3>1. to \in [Links -> Seq(Message)] /\ to[k] # <<>> /\ to' = [to EXCEPT ![k] = Tail(@)]
      BY <1>2, TypeFacts DEF LinkTake
    <3> QED
      BY <3>1, TakeFacts
  <2>2. \/ told'[l] = told[l]
        \/ Head(to[k]).kind = "noresponse" /\ told'[l] = Head(to[k]).packet
    BY <1>2, TypeFacts DEF LinkTake
  <2> QED
    BY <1>1, <2>1, <2>2 DEF ToldInv
<1>3. CASE Main
  BY <1>1, <1>3 DEF Main, MainSend, MainRecv, MainJudge, MainReport, MainFinish, MainEnd,
                    MainAbort, MainJoin, MainDone
<1>4. CASE Network
  BY <1>1, <1>4 DEF Network, RouterReply, Arrive
<1>5. ASSUME NEW k \in Links,
             LinkRead(k) \/ LinkTimeout(k) \/ LinkEof(k) \/ LinkReset(k) \/ Break(k)
      PROVE  told' = told
  BY <1>5 DEF LinkRead, LinkTimeout, LinkEof, LinkReset, Break
<1>6. CASE UNCHANGED vars
  BY <1>1, <1>6 DEF vars
<1> QED
  BY <1>1, <1>2, <1>3, <1>4, <1>5, <1>6 DEF Next, Link

LEMMA StepTold ==
  ASSUME TypeOK, ToldInv, [Next]_vars
  PROVE  ToldInv'
<1>1. reported => reported' /\ LastPacket' = LastPacket
  BY Settled
<1>2. Links' = Links
  BY DEF Links
<1>3. \A l \in Links : \A n \in 1 .. Len(to'[l]) :
        to'[l][n].kind = "noresponse" => reported' /\ to'[l][n].packet = LastPacket'
  BY <1>1, ToldOnTheWay
<1>4. \A l \in Links : told'[l] # "none" => reported' /\ told'[l] = LastPacket'
  BY <1>1, ToldWritten
<1> QED
  BY <1>2, <1>3, <1>4, ToldPlace DEF ToldInv

LEMMA InitTold == Init => ToldInv
<1> SUFFICES ASSUME Init PROVE ToldInv
  OBVIOUS
<1>1. main.pc = "send" /\ ~ reported
  BY DEF Init, Start
<1>2. \A l \in Links : to[l] = <<>> /\ told[l] = "none"
  BY DEF Init
<1> QED
  BY <1>1, <1>2 DEF ToldInv

-----------------------------------------------------------------------------
(* Answers: a test is sent once. *)

LEMMA SentGrows ==
  ASSUME TypeOK, [Next]_vars
  PROVE  env' = env /\ \A t \in Cases : Sent(t) => Sent(t)'
<1>0. /\ main \in MainState /\ main.test \in Nat /\ main.i \in Nat
      /\ \A t \in Cases : t \in Nat /\ Tests[t].send_link \in Int
  BY TypeFacts, MainFields, TestFacts, LinkFacts
<1>1. ASSUME UNCHANGED <<env, main>> PROVE \A t \in Cases : Sent(t) => Sent(t)'
  BY <1>1 DEF Sent, Tests
<1>2. ASSUME env' = env, main'.test = main.test, main'.pc # "send"
      PROVE  \A t \in Cases : Sent(t) => Sent(t)'
  BY <1>2 DEF Sent, Tests
<1>3. CASE MainSend
  <2>1. Proceed("recv") /\ main.pc = "send" /\ env' = env
    BY <1>3 DEF MainSend
  <2>2. /\ main'.test = main.test
        /\ main'.pc = "recv" \/ (main'.pc = "send" /\ main'.i = main.i + 1)
    BY <2>1, ProceedFields
  <2> QED
    BY <1>0, <2>1, <2>2 DEF Sent, Tests
<1>4. CASE MainJudge
  <2>1. CASE main.test < Len(Tests)
    <3>1. main'.test = main.test + 1 /\ env' = env
      BY <1>4, <2>1 DEF MainJudge, Start
    <3>2. \A t \in Cases : Sent(t) => t < main.test + 1
      BY <1>0 DEF Sent
    <3> QED
      BY <3>1, <3>2 DEF Sent
  <2>2. CASE ~ (main.test < Len(Tests))
    BY <1>0, <1>2, <1>4, <2>2 DEF MainJudge, MainState
  <2> QED
    BY <1>4, <2>1, <2>2 DEF MainJudge
<1>5. CASE MainRecv \/ MainReport \/ MainAbort \/ MainDone
  BY <1>0, <1>2, <1>5 DEF MainRecv, MainReport, MainAbort, MainDone, MainState
<1>6. CASE MainFinish \/ MainEnd
  <2>1. PICK next \in {"end", "cleanup"} : Proceed(next) /\ env' = env /\ main.pc # "send"
    BY <1>6 DEF MainFinish, MainEnd
  <2> QED
    BY <1>2, <2>1, ProceedFields
<1>7. ASSUME NEW l \in Links, MainJoin(l) PROVE UNCHANGED <<env, main>>
  BY <1>7 DEF MainJoin
<1>8. CASE Network
  BY <1>1, <1>8 DEF Network, RouterReply, Arrive
<1>9. ASSUME NEW l \in Links, Link(l) \/ Break(l) PROVE UNCHANGED <<env, main>>
  BY <1>9 DEF Link, LinkTake, LinkRead, LinkTimeout, LinkEof, LinkReset, Break
<1>10. CASE UNCHANGED vars
  BY <1>1, <1>10 DEF vars
<1>11. env' = env
  BY EnvStays
<1> QED
  BY <1>1, <1>3, <1>4, <1>5, <1>6, <1>7, <1>8, <1>9, <1>10, <1>11 DEF Next, Main

\* Steps that send, take and answer no test.
LEMMA KeepSent ==
  ASSUME TypeOK, SentInv, [Next]_vars, UNCHANGED <<at_router, reply>>,
         \A l \in Links : \A n \in 1 .. Len(to'[l]) :
           to'[l][n].kind = "active" => n \in 1 .. Len(to[l]) /\ to'[l][n] = to[l][n]
  PROVE  SentInv'
<1>1. env' = env /\ Links' = Links /\ Tests' = Tests /\ Cases' = Cases
      /\ \A t \in Cases : Sent(t) => Sent(t)'
  BY SentGrows DEF Links, Tests, Cases
<1>2. to \in [Links -> Seq(Message)] /\ at_router \in Seq(Cases)
  BY TypeFacts
<1>3. ASSUME NEW l \in Links, NEW n \in 1 .. Len(to'[l]), to'[l][n].kind = "active",
             NEW t, t = to'[l][n].test
      PROVE  /\ l = Tests[t].send_link /\ Sent(t)' /\ reply[t] = <<>>
             /\ \A m \in 1 .. Len(at_router) : at_router[m] # t
             /\ \A m \in 1 .. Len(to'[l]) :
                  to'[l][m].kind = "active" /\ to'[l][m].test = t => m = n
  <2>1. n \in 1 .. Len(to[l]) /\ to'[l][n] = to[l][n] /\ to[l] \in Seq(Message)
    BY <1>2, <1>3
  <2>2. t \in Cases
    <3>1. to[l][n] \in Message
      BY <2>1
    <3> QED
      BY <1>3, <2>1, <3>1, MessageFacts
  <2> QED
    BY <1>1, <1>3, <2>1, <2>2 DEF SentInv
<1>4. ASSUME NEW n \in 1 .. Len(at_router)
      PROVE  /\ Sent(at_router[n])' /\ reply[at_router[n]] = <<>>
             /\ \A m \in 1 .. Len(at_router) : at_router[m] = at_router[n] => m = n
  <2>1. PICK t \in Cases : t = at_router[n]
    BY <1>2
  <2>2. t = at_router'[n] /\ Sent(t)'
    BY <1>1, <2>1 DEF SentInv
  <2> QED
    BY <2>1, <2>2 DEF SentInv
<1> QED
  BY <1>1, <1>3, <1>4 DEF SentInv

\* A test goes out for the first time.
LEMMA SendSent ==
  ASSUME TypeOK, SentInv, MainSend
  PROVE  SentInv'
<1> DEFINE i == main.i
           k == main.test
           a == [kind |-> "active", test |-> k]
<1>0. [Next]_vars
  BY DEF Next, Main
<1>1. /\ UNCHANGED <<env, at_router, reply>> /\ Proceed("recv")
      /\ k \in Cases /\ k \in Nat /\ i \in Nat /\ main.pc = "send"
      /\ to \in [Links -> Seq(Message)] /\ a \in Message
  BY TypeFacts, MainFields, TestFacts, LinkFacts, Messages DEF MainSend, router
<1>2. CASE i # Tests[k].send_link
  <2> DEFINE e == [kind |-> "inactive"]
  <2>1. to' = Put(to, i, e) /\ e \in Message /\ e.kind # "active"
    BY <1>2, Messages DEF MainSend
  <2> HIDE DEF e
  <2>2. \A l \in Links : \A n \in 1 .. Len(to'[l]) :
          to'[l][n].kind = "active" => n \in 1 .. Len(to[l]) /\ to'[l][n] = to[l][n]
    BY <2>1, PutMainFacts
  <2> QED
    BY <1>0, <1>1, <2>2, KeepSent
<1>3. CASE i = Tests[k].send_link
  <2>1. to' = Put(to, i, a) /\ a.kind = "active" /\ a.test = k
    BY <1>3 DEF MainSend
  <2> HIDE DEF a
  <2>2. /\ Links' = Links /\ Tests' = Tests /\ Cases' = Cases
        /\ \A t \in Cases : Sent(t) => Sent(t)'
    BY <1>0, <1>1, SentGrows DEF Links, Tests, Cases
  <2>3. ~ Sent(k) /\ Sent(k)' /\ main'.test = k
    <3>1. ~ Sent(k)
      BY <1>1, <1>3 DEF Sent
    <3>2. main'.test = k /\ (main'.pc = "recv" \/ main'.i = i + 1)
      BY <1>1, ProceedFields
    <3> QED
      BY <1>1, <1>3, <2>2, <3>1, <3>2 DEF Sent
  <2>4. ASSUME NEW l \in Links, NEW n \in 1 .. Len(to'[l])
        PROVE  \/ n \in 1 .. Len(to[l]) /\ to'[l][n] = to[l][n]
               \/ l = i /\ n = Len(to[l]) + 1 /\ to'[l][n] = a
    BY <1>1, <2>1, PutMainFacts
  <2>5. ASSUME NEW l \in Links, NEW n \in 1 .. Len(to[l]), to[l][n].kind = "active"
        PROVE  to[l][n].test # k /\ to[l][n].test \in Cases
    <3>1. to[l][n] \in Message
      BY <1>1
    <3> QED
      BY <2>3, <2>5, <3>1, MessageFacts DEF SentInv
  <2>6. \A n \in 1 .. Len(at_router) : at_router[n] # k
    BY <2>3 DEF SentInv
  <2>7. reply[k] = <<>>
    BY <1>1, <2>3 DEF SentInv
  <2>8. ASSUME NEW l \in Links, NEW n \in 1 .. Len(to'[l]), to'[l][n].kind = "active",
               NEW t, t = to'[l][n].test
        PROVE  /\ l = Tests[t].send_link /\ Sent(t)' /\ reply[t] = <<>>
               /\ \A m \in 1 .. Len(at_router) : at_router[m] # t
               /\ \A m \in 1 .. Len(to'[l]) :
                    to'[l][m].kind = "active" /\ to'[l][m].test = t => m = n
    <3>1. CASE n \in 1 .. Len(to[l]) /\ to'[l][n] = to[l][n]
      <4>1. t # k /\ t \in Cases
        BY <2>5, <2>8, <3>1
      <4>2. \A m \in 1 .. Len(to'[l]) :
              to'[l][m].kind = "active" /\ to'[l][m].test = t =>
                m \in 1 .. Len(to[l]) /\ to'[l][m] = to[l][m]
        BY <2>1, <2>4, <4>1
      <4> QED
        BY <2>2, <2>8, <3>1, <4>1, <4>2 DEF SentInv
    <3>2. CASE l = i /\ n = Len(to[l]) + 1 /\ to'[l][n] = a
      <4>1. t = k
        BY <2>1, <2>8, <3>2
      <4>2. ASSUME NEW m \in 1 .. Len(to'[l]), to'[l][m].kind = "active", to'[l][m].test = k
            PROVE  m = n
        BY <2>4, <2>5, <3>2, <4>2
      <4> QED
        BY <1>3, <2>3, <2>6, <2>7, <3>2, <4>1, <4>2
    <3> QED
      BY <2>4, <3>1, <3>2
  <2>9. ASSUME NEW n \in 1 .. Len(at_router)
        PROVE  /\ Sent(at_router[n])' /\ reply[at_router[n]] = <<>>
               /\ \A m \in 1 .. Len(at_router) : at_router[m] = at_router[n] => m = n
    <3>1. PICK t \in Cases : t = at_router[n]
      BY TypeFacts
    <3>2. t = at_router'[n] /\ Sent(t)'
      BY <1>1, <2>2, <3>1 DEF SentInv
    <3> QED
      BY <3>1, <3>2 DEF SentInv
  <2> QED
    BY <1>1, <2>2, <2>8, <2>9 DEF SentInv
<1> QED
  BY <1>2, <1>3

\* A test goes to the router, or is lost with the connection.
LEMMA TakeSent ==
  ASSUME TypeOK, SentInv, NEW x \in Links, LinkTake(x)
  PROVE  SentInv'
<1> DEFINE q == Head(to[x])
<1>0. [Next]_vars
  BY DEF Next, Link
<1>1. /\ UNCHANGED <<env, main, reply>> /\ to \in [Links -> Seq(Message)]
      /\ at_router \in Seq(Cases) /\ Len(at_router) \in Nat
      /\ to[x] # <<>> /\ to' = [to EXCEPT ![x] = Tail(@)]
      /\ (at_router' = at_router \/ (q.kind = "active" /\ at_router' = Append(at_router, q.test)))
  BY TypeFacts DEF LinkTake
<1>2. /\ Links' = Links /\ Tests' = Tests /\ Cases' = Cases
      /\ \A t \in Cases : Sent(t) => Sent(t)'
  BY <1>0, <1>1, SentGrows DEF Links, Tests, Cases
<1>3. /\ q \in Message /\ 1 \in 1 .. Len(to[x]) /\ q = to[x][1]
      /\ \A n \in 1 .. Len(to'[x]) : n + 1 \in 1 .. Len(to[x]) /\ to'[x][n] = to[x][n + 1]
      /\ \A l \in Links \ {x} : to'[l] = to[l]
  BY <1>1, TakeFacts
<1>4. /\ to'[x] \in Seq(Message) /\ Len(to'[x]) \in Nat
  BY <1>1
<1> HIDE DEF q
<1>5. q.kind = "active" =>
        /\ q.test \in Cases /\ Sent(q.test) /\ reply[q.test] = <<>>
        /\ x = Tests[q.test].send_link
        /\ \A m \in 1 .. Len(at_router) : at_router[m] # q.test
  BY <1>3, MessageFacts DEF SentInv
<1>6. \A m \in 1 .. Len(at_router') :
        \/ m \in 1 .. Len(at_router) /\ at_router'[m] = at_router[m]
        \/ q.kind = "active" /\ m = Len(at_router) + 1 /\ at_router'[m] = q.test
  BY <1>1, <1>5
\* A message of to' was one of to, and is not the one that was taken.
<1>7. ASSUME NEW l \in Links, NEW n \in 1 .. Len(to'[l])
      PROVE  \E o \in 1 .. Len(to[l]) :
               to'[l][n] = to[l][o] /\ (l # x => o = n) /\ (l = x => o = n + 1)
  BY <1>3, <1>7
<1>8. ASSUME NEW l \in Links, NEW n \in 1 .. Len(to'[l]), to'[l][n].kind = "active",
             NEW t, t = to'[l][n].test
      PROVE  /\ l = Tests[t].send_link /\ Sent(t)' /\ reply[t] = <<>>
             /\ \A m \in 1 .. Len(at_router') : at_router'[m] # t
             /\ \A m \in 1 .. Len(to'[l]) :
                  to'[l][m].kind = "active" /\ to'[l][m].test = t => m = n
  <2>1. PICK o \in 1 .. Len(to[l]) :
          to'[l][n] = to[l][o] /\ (l # x => o = n) /\ (l = x => o = n + 1)
    BY <1>7
  <2>2. to[l][o] \in Message /\ t \in Cases
    <3>1. to[l][o] \in Message
      BY <1>1
    <3> QED
      BY <1>8, <2>1, <3>1, MessageFacts
  <2>3. /\ l = Tests[t].send_link /\ Sent(t) /\ reply[t] = <<>>
        /\ \A m \in 1 .. Len(at_router) : at_router[m] # t
        /\ \A m \in 1 .. Len(to[l]) : to[l][m].kind = "active" /\ to[l][m].test = t => m = o
    BY <1>8, <2>1 DEF SentInv
  <2>4. q.kind = "active" => q.test # t
    <3>1. ASSUME q.kind = "active", q.test = t PROVE FALSE
      <4>1. l = x
        BY <1>5, <2>3, <3>1
      <4>2. o = 1 /\ o = n + 1
        BY <1>3, <2>1, <2>3, <3>1, <4>1
      <4> QED
        BY <1>4, <1>8, <4>1, <4>2
    <3> QED
      BY <3>1
  <2>5. \A m \in 1 .. Len(at_router') : at_router'[m] # t
    BY <1>6, <2>3, <2>4
  <2>6. ASSUME NEW m \in 1 .. Len(to'[l]), to'[l][m].kind = "active", to'[l][m].test = t
        PROVE  m = n
    <3>1. PICK p \in 1 .. Len(to[l]) :
            to'[l][m] = to[l][p] /\ (l # x => p = m) /\ (l = x => p = m + 1)
      BY <1>7
    <3>2. p = o
      BY <2>3, <2>6, <3>1
    <3> QED
      BY <2>1, <3>1, <3>2
  <2> QED
    BY <1>2, <2>2, <2>3, <2>5, <2>6
<1>9. ASSUME NEW n \in 1 .. Len(at_router'), NEW t, t = at_router'[n]
      PROVE  /\ Sent(t)' /\ reply[t] = <<>>
             /\ \A m \in 1 .. Len(at_router') : at_router'[m] = t => m = n
  <2>1. CASE n \in 1 .. Len(at_router) /\ at_router'[n] = at_router[n]
    <3>1. t \in Cases /\ t = at_router[n]
      BY <1>1, <1>9, <2>1
    <3>2. q.kind = "active" => q.test # t
      BY <1>5, <2>1, <3>1
    <3> QED
      BY <1>2, <1>6, <2>1, <3>1, <3>2 DEF SentInv
  <2>2. CASE q.kind = "active" /\ n = Len(at_router) + 1 /\ at_router'[n] = q.test
    BY <1>2, <1>5, <1>6, <1>9, <2>2
  <2> QED
    BY <1>6, <2>1, <2>2
<1>10. \A t \in Cases : reply[t] # <<>> => Sent(t)'
  BY <1>2 DEF SentInv
<1>11. reply' = reply
  BY <1>1
<1> QED
  BY <1>2, <1>8, <1>9, <1>10, <1>11 DEF SentInv

\* The router answers the first test it has.
LEMMA ReplySent ==
  ASSUME TypeOK, SentInv, RouterReply
  PROVE  /\ SentInv' /\ Head(at_router) \in Cases /\ reply[Head(at_router)] = <<>>
         /\ \A t \in Cases \ {Head(at_router)} : reply'[t] = reply[t]
<1> DEFINE h == Head(at_router)
<1>0. [Next]_vars
  BY DEF Next, Network
<1>1. /\ UNCHANGED <<env, to>> /\ to \in [Links -> Seq(Message)]
      /\ at_router \in Seq(Cases) /\ at_router # <<>> /\ at_router' = Tail(at_router)
      /\ reply \in [Cases -> {<<>>} \cup [Links -> ReplyValues]]
      /\ \E r : reply' = [reply EXCEPT ![h] = r]
  BY TypeFacts DEF RouterReply, channels
<1>2. /\ Links' = Links /\ Tests' = Tests /\ Cases' = Cases
      /\ \A t \in Cases : Sent(t) => Sent(t)'
  BY <1>0, <1>1, SentGrows DEF Links, Tests, Cases
<1>3. /\ h \in Cases /\ 1 \in 1 .. Len(at_router) /\ h = at_router[1]
      /\ Len(at_router') \in Nat
      /\ \A n \in 1 .. Len(at_router') :
           n + 1 \in 1 .. Len(at_router) /\ at_router'[n] = at_router[n + 1]
  <2>1. Len(at_router) \in Nat /\ Len(at_router) # 0
    BY <1>1, EmptySeq
  <2> QED
    BY <1>1, <2>1, HeadTailProperties
<1> HIDE DEF h
<1>4. \A t \in Cases \ {h} : reply'[t] = reply[t]
  BY <1>1
<1>5. Sent(h) /\ reply[h] = <<>> /\ \A m \in 1 .. Len(at_router) : at_router[m] = h => m = 1
  BY <1>3 DEF SentInv
<1>6. ASSUME NEW n \in 1 .. Len(at_router'), NEW t, t = at_router'[n]
      PROVE  /\ Sent(t)' /\ reply'[t] = <<>>
             /\ \A m \in 1 .. Len(at_router') : at_router'[m] = t => m = n
  <2>1. n + 1 \in 1 .. Len(at_router) /\ t = at_router[n + 1] /\ n \in Nat /\ n # 0
    BY <1>3, <1>6
  <2>2. t \in Cases /\ t # h
    BY <1>1, <1>5, <2>1
  <2>3. ASSUME NEW m \in 1 .. Len(at_router'), at_router'[m] = t PROVE m = n
    <3>1. m + 1 \in 1 .. Len(at_router) /\ at_router[m + 1] = t
      BY <1>3, <2>3
    <3>2. m + 1 = n + 1
      BY <2>1, <3>1 DEF SentInv
    <3> QED
      BY <2>1, <3>2
  <2> QED
    BY <1>2, <1>4, <2>1, <2>2, <2>3 DEF SentInv
<1>7. ASSUME NEW l \in Links, NEW n \in 1 .. Len(to[l]), to[l][n].kind = "active",
             NEW t, t = to[l][n].test
      PROVE  /\ l = Tests[t].send_link /\ Sent(t)' /\ reply'[t] = <<>>
             /\ \A m \in 1 .. Len(at_router') : at_router'[m] # t
             /\ \A m \in 1 .. Len(to[l]) : to[l][m].kind = "active" /\ to[l][m].test = t => m = n
  <2>1. t \in Cases
    <3>1. to[l][n] \in Message
      BY <1>1
    <3> QED
      BY <1>7, <3>1, MessageFacts
  <2>2. \A m \in 1 .. Len(at_router) : at_router[m] # t
    BY <1>7 DEF SentInv
  <2>3. t # h /\ \A m \in 1 .. Len(at_router') : at_router'[m] # t
    BY <1>3, <2>2
  <2> QED
    BY <1>2, <1>4, <1>7, <2>1, <2>3 DEF SentInv
<1>8. \A t \in Cases : reply'[t] # <<>> => Sent(t)'
  BY <1>2, <1>4, <1>5 DEF SentInv
<1>9. SentInv'
  BY <1>1, <1>2, <1>6, <1>7, <1>8 DEF SentInv
<1> QED
  BY <1>3, <1>4, <1>5, <1>9 DEF h

LEMMA StepSent ==
  ASSUME TypeOK, SentInv, [Next]_vars
  PROVE  SentInv' /\ \A t \in Cases : reply[t] # <<>> => reply'[t] = reply[t]
<1>1. ASSUME SentInv', reply' = reply
      PROVE  SentInv' /\ \A t \in Cases : reply[t] # <<>> => reply'[t] = reply[t]
  BY <1>1
<1>2. ASSUME UNCHANGED <<to, at_router, reply>>
      PROVE  SentInv'
  BY <1>2, KeepSent
<1>3. CASE MainSend
  BY <1>1, <1>3, SendSent DEF MainSend, router
<1>4. CASE MainFinish \/ MainEnd
  <2>1. PICK m \in Message : m.kind # "active" /\ to' = Put(to, main.i, m)
    <3>1. CASE MainFinish
      BY <3>1, Messages, LastPacketType DEF MainFinish
    <3>2. CASE MainEnd
      BY <3>2, Messages DEF MainEnd
    <3> QED
      BY <1>4, <3>1, <3>2
  <2>2. UNCHANGED <<at_router, reply>>
    BY <1>4 DEF MainFinish, MainEnd, router
  <2>3. \A l \in Links : \A n \in 1 .. Len(to'[l]) :
          to'[l][n].kind = "active" => n \in 1 .. Len(to[l]) /\ to'[l][n] = to[l][n]
    BY <2>1, PutMainFacts
  <2> QED
    BY <1>1, <2>2, <2>3, KeepSent
<1>5. CASE MainRecv \/ MainJudge \/ MainReport \/ MainAbort \/ MainDone
  BY <1>1, <1>2, <1>5
     DEF MainRecv, MainJudge, MainReport, MainAbort, MainDone, channels, router
<1>6. ASSUME NEW x \in Links, MainJoin(x) PROVE SentInv' /\ reply' = reply
  <2> DEFINE e == [kind |-> "end"]
  <2>1. UNCHANGED <<at_router, reply>>
    BY <1>6 DEF MainJoin, router
  <2>2. ASSUME NEW l \in Links, NEW n \in 1 .. Len(to'[l]), to'[l][n].kind = "active"
        PROVE  n \in 1 .. Len(to[l]) /\ to'[l][n] = to[l][n]
    <3>1. to[l] \in Seq(Message) /\ e \in Message /\ e.kind # "active"
      BY TypeFacts, Messages
    <3>2. to'[l] = Append(to[l], e) \/ to'[l] = to[l]
      BY <1>6 DEF MainJoin
    <3> HIDE DEF e
    <3> QED
      BY <2>2, <3>1, <3>2
  <2> QED
    BY <2>1, <2>2, KeepSent
<1>7. ASSUME NEW l \in Links, LinkTake(l) PROVE SentInv' /\ reply' = reply
  BY <1>7, TakeSent DEF LinkTake
<1>8. CASE RouterReply
  BY <1>8, ReplySent
<1>9. ASSUME NEW l \in Links,
             \/ LinkRead(l) \/ LinkTimeout(l) \/ LinkEof(l) \/ LinkReset(l)
             \/ Arrive(l) \/ Break(l)
      PROVE  UNCHANGED <<to, at_router, reply>>
  BY <1>9 DEF LinkRead, LinkTimeout, LinkEof, LinkReset, Arrive, Break, channels, router
<1>10. CASE UNCHANGED vars
  BY <1>1, <1>2, <1>10 DEF vars, channels, router
<1> QED
  BY <1>1, <1>2, <1>3, <1>4, <1>5, <1>6, <1>7, <1>8, <1>9, <1>10 DEF Next, Main, Network, Link

-----------------------------------------------------------------------------
(* Answers: what comes back is what was answered. *)

\* What was said stays said.
LEMMA StillSays ==
  ASSUME TypeOK, SentInv, [Next]_vars, NEW m, m.test \in Cases, NEW l \in Links, Says(m, l)
  PROVE  reply'[m.test] # <<>> /\ reply'[m.test][l] = m.value
<1>1. reply'[m.test] = reply[m.test]
  BY StepSent DEF Says
<1> QED
  BY <1>1 DEF Says


\* Where the packets of the next state come from.
OutboxFrom(l) ==
  \A n \in 1 .. Len(outbox'[l]) :
    \/ \E o \in 1 .. Len(outbox[l]) : outbox'[l][n] = outbox[l][o]
    \/ reply'[outbox'[l][n].test] # <<>> /\ reply'[outbox'[l][n].test][l] = outbox'[l][n].value
InboxFrom(l) ==
  \A n \in 1 .. Len(inbox'[l]) :
    \/ \E o \in 1 .. Len(inbox[l]) : inbox'[l][n] = inbox[l][o]
    \/ \E o \in 1 .. Len(outbox[l]) : inbox'[l][n] = outbox[l][o]
FromFrom(l) ==
  \A n \in 1 .. Len(from'[l]) :
    from'[l][n].kind = "packet" =>
      \/ \E o \in 1 .. Len(from[l]) : from'[l][n] = from[l][o]
      \/ \E o \in 1 .. Len(inbox[l]) :
           from'[l][n].test = inbox[l][o].test /\ from'[l][n].value = inbox[l][o].value

LEMMA KeepSaid ==
  ASSUME TypeOK, SentInv, SaidInv, [Next]_vars,
         \A l \in Links : OutboxFrom(l) /\ InboxFrom(l) /\ FromFrom(l)
  PROVE  SaidInv'
<1> DEFINE Said(m, l) == reply'[m.test] # <<>> /\ reply'[m.test][l] = m.value
<1>1. ASSUME NEW l \in Links, NEW n \in 1 .. Len(outbox[l]) PROVE Said(outbox[l][n], l)
  <2>1. outbox[l][n].test \in Cases /\ Says(outbox[l][n], l)
    BY TypeFacts, PacketFacts DEF SaidInv
  <2> QED
    BY <2>1, StillSays
<1>2. ASSUME NEW l \in Links, NEW n \in 1 .. Len(inbox[l]) PROVE Said(inbox[l][n], l)
  <2>1. inbox[l][n].test \in Cases /\ Says(inbox[l][n], l)
    BY TypeFacts, PacketFacts DEF SaidInv
  <2> QED
    BY <2>1, StillSays
<1>3. ASSUME NEW l \in Links, NEW n \in 1 .. Len(from[l]), from[l][n].kind = "packet"
      PROVE  Said(from[l][n], l)
  <2>1. from[l][n] \in Answered
    BY TypeFacts
  <2>2. from[l][n].test \in Cases /\ Says(from[l][n], l)
    BY <1>3, <2>1, AnsweredFacts DEF SaidInv
  <2> QED
    BY <2>2, StillSays
<1>4. ASSUME NEW l \in Links, NEW n \in 1 .. Len(outbox'[l]) PROVE Said(outbox'[l][n], l)
  BY <1>1 DEF OutboxFrom
<1>5. ASSUME NEW l \in Links, NEW n \in 1 .. Len(inbox'[l]) PROVE Said(inbox'[l][n], l)
  <2>1. CASE \E o \in 1 .. Len(inbox[l]) : inbox'[l][n] = inbox[l][o]
    BY <1>2, <2>1
  <2>2. CASE \E o \in 1 .. Len(outbox[l]) : inbox'[l][n] = outbox[l][o]
    BY <1>1, <2>2
  <2> QED
    BY <2>1, <2>2 DEF InboxFrom
<1>6. ASSUME NEW l \in Links, NEW n \in 1 .. Len(from'[l]), from'[l][n].kind = "packet"
      PROVE  Said(from'[l][n], l)
  BY <1>2, <1>3, <1>6 DEF FromFrom
<1> QED
  BY <1>4, <1>5, <1>6 DEF SaidInv, Says, Links

\* A channel that loses its first message, or keeps all.
LEMMA KeepPackets ==
  /\ outbox' = outbox => \A l \in Links : OutboxFrom(l)
  /\ inbox' = inbox => \A l \in Links : InboxFrom(l)
  /\ from' = from => \A l \in Links : FromFrom(l)
BY DEF OutboxFrom, InboxFrom, FromFrom

LEMMA ReplySaid ==
  ASSUME TypeOK, SentInv, RouterReply, NEW l \in Links
  PROVE  OutboxFrom(l)
<1> DEFINE h == Head(at_router)
<1>1. PICK r \in [Links -> ReplyValues] :
        /\ reply' = [reply EXCEPT ![h] = r]
        /\ outbox' = [k \in Links |->
             IF r[k] = "none" THEN outbox[k]
             ELSE Append(outbox[k], [test |-> h, value |-> r[k]])]
  BY DEF RouterReply
<1> DEFINE p == [test |-> h, value |-> r[l]]
<1>2. h \in Cases /\ reply'[h] = r /\ outbox[l] \in Seq(Packet)
  BY <1>1, ReplySent, TypeFacts
<1>3. r # <<>>
  <2>1. DOMAIN r = Links /\ DOMAIN <<>> = {} /\ 0 \in Links
    BY LinkFacts
  <2> QED
    BY <2>1
<1>4. CASE r[l] = "none"
  BY <1>1, <1>4 DEF OutboxFrom
<1>5. CASE r[l] # "none"
  <2>1. p \in Packet /\ p.test = h /\ p.value = r[l]
    BY <1>1, <1>2, <1>5 DEF Packet
  <2>2. outbox'[l] = Append(outbox[l], p)
    BY <1>1, <1>5
  <2> HIDE DEF p, h
  <2>3. \A n \in 1 .. Len(outbox'[l]) :
          outbox'[l][n] = p \/ (n \in 1 .. Len(outbox[l]) /\ outbox'[l][n] = outbox[l][n])
    BY <1>2, <2>1, <2>2
  <2> QED
    BY <1>2, <1>3, <2>1, <2>3 DEF OutboxFrom
<1> QED
  BY <1>4, <1>5

LEMMA ArriveSaid ==
  ASSUME TypeOK, NEW x \in Links, Arrive(x), NEW l \in Links
  PROVE  OutboxFrom(l) /\ InboxFrom(l)
<1> DEFINE q == Head(outbox[x])
<1>1. /\ outbox \in [Links -> Seq(Packet)] /\ outbox[x] # <<>>
      /\ outbox' = [outbox EXCEPT ![x] = Tail(@)]
      /\ inbox \in [Links -> Seq(Packet)] /\ (inbox' = Put(inbox, x, q) \/ inbox' = inbox)
  BY TypeFacts DEF Arrive
<1>2. /\ q \in Packet /\ 1 \in 1 .. Len(outbox[x]) /\ q = outbox[x][1]
      /\ \A n \in 1 .. Len(outbox'[x]) : n + 1 \in 1 .. Len(outbox[x]) /\ outbox'[x][n] = outbox[x][n + 1]
      /\ \A k \in Links \ {x} : outbox'[k] = outbox[k]
  BY <1>1, TakeFacts
<1> HIDE DEF q
<1>3. OutboxFrom(l)
  BY <1>2 DEF OutboxFrom
<1>4. CASE inbox' = inbox
  BY <1>3, <1>4, KeepPackets
<1>5. CASE inbox' = Put(inbox, x, q)
  <2>1. ASSUME NEW n \in 1 .. Len(Put(inbox, x, q)[l])
        PROVE  \/ n \in 1 .. Len(inbox[l]) /\ Put(inbox, x, q)[l][n] = inbox[l][n]
               \/ l = x /\ Put(inbox, x, q)[l][n] = q
    <3>1. inbox \in [Links -> Seq(Packet)] /\ q \in Packet
      BY <1>1, <1>2
    <3> QED
      BY <2>1, <3>1, PutFacts
  <2> QED
    BY <1>2, <1>3, <1>5, <2>1 DEF InboxFrom
<1> QED
  BY <1>1, <1>3, <1>4, <1>5

\* A link thread answers with nothing, or with what it read.
LEMMA AnswerSaid ==
  ASSUME TypeOK, NEW x \in Links, NEW m \in Answered, Answer(x, m), NEW l \in Links,
         m.kind = "packet" =>
           \E o \in 1 .. Len(inbox[x]) : m.test = inbox[x][o].test /\ m.value = inbox[x][o].value
  PROVE  FromFrom(l)
<1>1. from \in [Links -> Seq(Answered)] /\ from' = Put(from, x, m)
  BY TypeFacts DEF Answer
<1>2. ASSUME NEW n \in 1 .. Len(Put(from, x, m)[l])
      PROVE  \/ n \in 1 .. Len(from[l]) /\ Put(from, x, m)[l][n] = from[l][n]
             \/ l = x /\ Put(from, x, m)[l][n] = m
  <2>1. from \in [Links -> Seq(Answered)] /\ m \in Answered
    BY <1>1
  <2>2. \A k \in Links : \A j \in 1 .. Len(Put(from, x, m)[k]) :
          \/ j \in 1 .. Len(from[k]) /\ Put(from, x, m)[k][j] = from[k][j]
          \/ k = x /\ j = Len(from[x]) + 1 /\ Put(from, x, m)[k][j] = m
    BY <2>1, PutFacts, SMTT(60)
  <2> QED
    BY <1>2, <2>2
<1> QED
  BY <1>1, <1>2 DEF FromFrom

LEMMA ReadSaid ==
  ASSUME TypeOK, NEW x \in Links, LinkRead(x), NEW l \in Links
  PROVE  InboxFrom(l) /\ FromFrom(l)
<1> DEFINE p == Head(inbox[x])
<1>1. /\ inbox \in [Links -> Seq(Packet)] /\ inbox[x] # <<>>
      /\ inbox' = [inbox EXCEPT ![x] = <<>>]
  BY TypeFacts DEF LinkRead
<1>2. InboxFrom(l)
  BY <1>1 DEF InboxFrom
<1>3. p \in Packet /\ 1 \in 1 .. Len(inbox[x]) /\ p = inbox[x][1]
  BY <1>1, TakeFacts
<1>4. CASE p.value # "short" /\ Answer(x, [kind |-> "packet", test |-> p.test, value |-> p.value])
  <2> DEFINE a == [kind |-> "packet", test |-> p.test, value |-> p.value]
  <2>1. a.test = p.test /\ a.value = p.value /\ a \in Answered
    BY <1>3, <1>4, PacketFacts, Answers
  <2>2. \E o \in 1 .. Len(inbox[x]) : a.test = inbox[x][o].test /\ a.value = inbox[x][o].value
    BY <1>3, <2>1
  <2>3. Answer(x, a)
    BY <1>4
  <2> HIDE DEF a, p
  <2> QED
    BY <1>2, <2>1, <2>2, <2>3, AnswerSaid
<1>5. CASE Answer(x, [kind |-> "error"])
  <2> DEFINE a == [kind |-> "error"]
  <2>1. a \in Answered /\ a.kind # "packet" /\ Answer(x, a)
    BY <1>5, Answers
  <2> HIDE DEF a
  <2> QED
    BY <1>2, <2>1, AnswerSaid
<1>6. CASE from' = from
  BY <1>2, <1>6, KeepPackets
<1> QED
  BY <1>4, <1>5, <1>6 DEF LinkRead

LEMMA StepSaid ==
  ASSUME TypeOK, SentInv, SaidInv, [Next]_vars
  PROVE  SaidInv'
<1>1. CASE RouterReply
  BY <1>1, ReplySaid, KeepPackets, KeepSaid DEF RouterReply, channels
<1>2. ASSUME NEW x \in Links, Arrive(x) PROVE SaidInv'
  BY <1>2, ArriveSaid, KeepPackets, KeepSaid DEF Arrive, channels
<1>3. ASSUME NEW x \in Links, LinkRead(x) PROVE SaidInv'
  BY <1>3, ReadSaid, KeepPackets, KeepSaid DEF LinkRead, router
<1>4. ASSUME NEW x \in Links, NEW m \in Answered, m.kind # "packet", Answer(x, m),
             UNCHANGED <<outbox, inbox>>
      PROVE  SaidInv'
  BY <1>4, AnswerSaid, KeepPackets, KeepSaid
<1>5. ASSUME NEW x \in Links, LinkTimeout(x) \/ LinkEof(x) PROVE SaidInv'
  <2>1. PICK m \in Answered : m.kind # "packet" /\ Answer(x, m)
    <3>1. CASE LinkTimeout(x)
      BY <3>1, Answers DEF LinkTimeout
    <3>2. CASE LinkEof(x)
      BY <3>2, Answers DEF LinkEof
    <3> QED
      BY <1>5, <3>1, <3>2
  <2> QED
    BY <1>4, <1>5, <2>1 DEF LinkTimeout, LinkEof, router
<1>6. CASE MainRecv
  <2> DEFINE i == main.i
  <2>1. /\ from \in [Links -> Seq(Answered)] /\ i \in Links /\ from[i] # <<>>
        /\ from' = [from EXCEPT ![i] = Tail(@)]
    BY <1>6, TypeFacts, MainFields, LinkFacts DEF MainRecv
  <2> HIDE DEF i
  <2>2. /\ \A n \in 1 .. Len(from'[i]) : n + 1 \in 1 .. Len(from[i]) /\ from'[i][n] = from[i][n + 1]
        /\ \A k \in Links \ {i} : from'[k] = from[k]
    BY <2>1, TakeFacts
  <2>3. \A l \in Links : FromFrom(l)
    BY <2>2 DEF FromFrom
  <2> QED
    BY <1>6, <2>3, KeepPackets, KeepSaid DEF MainRecv, router
<1>7. ASSUME UNCHANGED <<outbox, inbox, from>> PROVE SaidInv'
  BY <1>7, KeepPackets, KeepSaid
<1>8. CASE MainSend \/ MainJudge \/ MainReport \/ MainFinish \/ MainEnd \/ MainAbort \/ MainDone
  BY <1>7, <1>8
     DEF MainSend, MainJudge, MainReport, MainFinish, MainEnd, MainAbort, MainDone, channels, router
<1>9. ASSUME NEW x \in Links, MainJoin(x) \/ LinkTake(x) \/ LinkReset(x) \/ Break(x)
      PROVE  UNCHANGED <<outbox, inbox, from>>
  BY <1>9 DEF MainJoin, LinkTake, LinkReset, Break, channels, router
<1>10. CASE UNCHANGED vars
  BY <1>7, <1>10 DEF vars, channels, router
<1> QED
  BY <1>1, <1>2, <1>3, <1>5, <1>6, <1>7, <1>8, <1>9, <1>10 DEF Next, Main, Network, Link

-----------------------------------------------------------------------------
(* Answers: a test that passed was answered. *)

\* What a passed test and the test in progress were answered does not change.
LEMMA StillHeard ==
  ASSUME TypeOK, SentInv, HeardInv, [Next]_vars
  PROVE  /\ UNCHANGED main =>
              (main'.pc = "recv" /\ ~main'.failed =>
                 \A l \in Met' : reply'[main'.test] # <<>> /\ reply'[main'.test][l] = "right")
         /\ \A k \in Cases : errors'[k] = errors[k] =>
              (errors'[k] = "passed" =>
                 \A l \in Tests[k].recv_links : reply'[k] # <<>> /\ reply'[k][l] = "right")
<1>1. \A t \in Cases : reply[t] # <<>> => reply'[t] = reply[t]
  BY StepSent
<1>2. Tests' = Tests /\ main.test \in Cases
  BY EnvStays, TypeFacts, MainFields DEF Tests
<1>3. ASSUME UNCHANGED main, main'.pc = "recv", ~main'.failed, NEW l \in Met'
      PROVE  reply'[main'.test] # <<>> /\ reply'[main'.test][l] = "right"
  <2>1. l \in Met
    BY <1>2, <1>3 DEF Met
  <2>2. reply[main.test] # <<>> /\ reply[main.test][l] = "right"
    BY <1>3, <2>1 DEF HeardInv
  <2> QED
    BY <1>1, <1>2, <1>3, <2>2
<1>4. ASSUME NEW k \in Cases, errors'[k] = errors[k], errors'[k] = "passed",
             NEW l \in Tests[k].recv_links
      PROVE  reply'[k] # <<>> /\ reply'[k][l] = "right"
  BY <1>1, <1>4 DEF HeardInv, PassedWasAnswered
<1> QED
  BY <1>3, <1>4

LEMMA RecvHeard ==
  ASSUME TypeOK, SentInv, SaidInv, HeardInv, MainRecv
  PROVE  HeardInv'
<1> DEFINE i == main.i
           k == main.test
           m == Head(from[i])
<1>0. [Next]_vars
  BY DEF Next, Main
<1>1. /\ main \in MainState /\ main.pc = "recv" /\ i \in Links /\ i \in Nat /\ k \in Cases
      /\ from \in [Links -> Seq(Answered)] /\ from[i] # <<>>
  BY TypeFacts, MainFields, LinkFacts DEF MainRecv
<1>2. /\ UNCHANGED <<env, reply>> /\ Tests' = Tests /\ Cases' = Cases
      /\ errors' = IF Inserted(m, k, i) THEN [errors EXCEPT ![k] = "failed"] ELSE errors
  BY DEF MainRecv, router, Tests, Cases
<1>3. main'.test = k /\ main'.i = i + 1
  BY <1>1 DEF MainRecv, MainState
<1>4. ~ main'.failed => ~ main.failed /\ ~ Bad(m, k, i)
  BY <1>1 DEF MainRecv, MainState
<1>5. m \in Answered /\ 1 \in 1 .. Len(from[i]) /\ m = from[i][1]
  <2> HIDE DEF i
  <2>1. \E d : d = [from EXCEPT ![i] = Tail(@)]
    OBVIOUS
  <2> QED
    BY <1>1, <2>1, TakeFacts DEF m
<1> HIDE DEF m
<1>6. ASSUME ~ main'.failed, NEW l \in Met'
      PROVE  reply'[k] # <<>> /\ reply'[k][l] = "right"
  <2>1. l \in Tests[k].recv_links /\ l < i + 1 /\ l \in Nat
    BY <1>1, <1>2, <1>3, TypeFacts, TestFacts, LinkFacts DEF Met
  <2>2. CASE l = i
    <3>1. m.kind = "packet" /\ m.test = k /\ m.value = "right"
      BY <1>4, <1>6, <2>1, <2>2 DEF Bad, Expects
    <3>2. Says(m, i)
      BY <1>1, <1>5, <3>1 DEF SaidInv
    <3> QED
      BY <1>2, <2>2, <3>1, <3>2 DEF Says
  <2>3. CASE l # i
    <3>1. l \in Met
      BY <1>1, <2>1, <2>3 DEF Met
    <3> QED
      BY <1>1, <1>2, <1>4, <1>6, <3>1 DEF HeardInv
  <2> QED
    BY <2>2, <2>3
<1>7. ASSUME NEW t \in Cases, errors'[t] = "passed"
      PROVE  errors'[t] = errors[t]
  BY <1>1, <1>2, <1>7, TypeFacts
<1>8. PassedWasAnswered'
  BY <1>0, <1>2, <1>7, StillHeard DEF PassedWasAnswered
<1> QED
  BY <1>3, <1>6, <1>8 DEF HeardInv

LEMMA JudgeHeard ==
  ASSUME TypeOK, SentInv, HeardInv, MainJudge
  PROVE  HeardInv'
<1> DEFINE k == main.test
<1>0. [Next]_vars
  BY DEF Next, Main
<1>1. /\ main.pc = "recv" /\ main.i = ROUTER_LINK_COUNT /\ k \in Cases
      /\ errors \in [Cases -> {"none", "passed", "failed"}]
  BY TypeFacts, MainFields DEF MainJudge
<1>2. UNCHANGED <<env, reply>> /\ Tests' = Tests /\ Cases' = Cases /\ errors' = Verdict(k)
  BY DEF MainJudge, router, Tests, Cases
<1>3. main'.pc # "recv"
  <2>1. main' = Start(k + 1) \/ main' = [main EXCEPT !.pc = "report"]
    BY DEF MainJudge
  <2>2. Start(k + 1).pc = "send" /\ [main EXCEPT !.pc = "report"].pc = "report"
    BY TypeFacts DEF Start, MainState
  <2> QED
    BY <2>1, <2>2
<1>4. ASSUME NEW t \in Cases, errors'[t] = "passed", NEW l \in Tests[t].recv_links
      PROVE  reply'[t] # <<>> /\ reply'[t][l] = "right"
  <2>1. CASE errors'[t] = errors[t]
    BY <1>0, <1>4, <2>1, StillHeard
  <2>2. CASE errors'[t] # errors[t]
    <3>1. t = k /\ ~ main.failed
      BY <1>1, <1>2, <1>4, <2>2 DEF Verdict
    <3>2. l \in Met
      BY <1>1, <1>4, <3>1, MetAll
    <3> QED
      BY <1>1, <1>2, <3>1, <3>2 DEF HeardInv
  <2> QED
    BY <2>1, <2>2
<1>5. PassedWasAnswered'
  BY <1>2, <1>4 DEF PassedWasAnswered
<1> QED
  BY <1>3, <1>5 DEF HeardInv

LEMMA StepHeard ==
  ASSUME TypeOK, SentInv, SaidInv, HeardInv, [Next]_vars
  PROVE  HeardInv'
<1>1. Tests' = Tests /\ Cases' = Cases
  BY EnvStays DEF Tests, Cases
<1>2. ASSUME errors' = errors PROVE PassedWasAnswered'
  BY <1>1, <1>2, StillHeard DEF PassedWasAnswered
<1>3. ASSUME UNCHANGED <<main, errors>> PROVE HeardInv'
  BY <1>2, <1>3, StillHeard DEF HeardInv
<1>4. CASE MainSend
  <2>1. Proceed("recv") /\ main.pc = "send" /\ errors' = errors
    BY <1>4 DEF MainSend, verdicts
  <2>2. main'.pc = "send" \/ (main'.pc = "recv" /\ main'.i = 0)
    BY <2>1, ProceedFields
  <2>3. main'.pc = "recv" => Met' = {}
    <3>1. main'.test = main.test /\ Tests[main.test].recv_links \subseteq Nat
      BY <2>1, ProceedFields, TypeFacts, MainFields, TestFacts, LinkFacts
    <3> QED
      BY <1>1, <2>2, <3>1 DEF Met
  <2> QED
    BY <1>2, <2>1, <2>3 DEF HeardInv
<1>5. CASE MainReport \/ MainFinish \/ MainEnd \/ MainAbort \/ MainDone
  <2>1. errors' = errors
    BY <1>5 DEF MainReport, MainFinish, MainEnd, MainAbort, MainDone, verdicts
  <2>2. main'.pc # "recv"
    BY <1>5, TypeFacts, ProceedFields
       DEF MainReport, MainFinish, MainEnd, MainAbort, MainDone, MainState
  <2> QED
    BY <1>2, <2>1, <2>2 DEF HeardInv
<1>6. ASSUME NEW l \in Links, MainJoin(l) PROVE UNCHANGED <<main, errors>>
  BY <1>6 DEF MainJoin, verdicts
<1>7. CASE Network
  BY <1>3, <1>7 DEF Network, RouterReply, Arrive, verdicts
<1>8. ASSUME NEW l \in Links, Link(l) \/ Break(l) PROVE UNCHANGED <<main, errors>>
  BY <1>8 DEF Link, LinkTake, LinkRead, LinkTimeout, LinkEof, LinkReset, Break, verdicts
<1>9. CASE UNCHANGED vars
  BY <1>3, <1>9 DEF vars, verdicts
<1> QED
  BY <1>3, <1>4, <1>5, <1>6, <1>7, <1>8, <1>9, RecvHeard, JudgeHeard DEF Next, Main

LEMMA InitAnswer == Init => SentInv /\ SaidInv /\ HeardInv
<1> SUFFICES ASSUME Init PROVE SentInv /\ SaidInv /\ HeardInv
  OBVIOUS
<1>1. /\ \A l \in Links : to[l] = <<>> /\ from[l] = <<>> /\ outbox[l] = <<>> /\ inbox[l] = <<>>
      /\ at_router = <<>> /\ \A t \in Cases : reply[t] = <<>> /\ errors[t] = "none"
      /\ main.pc = "send"
  BY DEF Init, Start
<1>2. SentInv
  BY <1>1 DEF SentInv
<1>3. SaidInv
  BY <1>1 DEF SaidInv
<1> QED
  BY <1>1, <1>2, <1>3 DEF HeardInv, PassedWasAnswered

-----------------------------------------------------------------------------
(* A router in time, on connections that are reset but never end: tests    *)
(* follow one another, and each gets the verdict its answer deserves.      *)

\* A test is in progress: link l has been given its question, and its
\* answer has been collected.
Testing      == main.pc \in {"send", "recv"}
Given(l)     == main.pc = "send" => l < main.i
Collected(l) == main.pc = "recv" /\ l < main.i
Question(l)  == IF l = Tests[main.test].send_link
                  THEN [kind |-> "active", test |-> main.test] ELSE [kind |-> "inactive"]

\* Where link thread l and its channels are in a test.
Idle(l)      == link[l] = "wait" /\ to[l] = <<>> /\ from[l] = <<>>
Asked(l)     == link[l] = "wait" /\ to[l] = <<Question(l)>> /\ from[l] = <<>>
Reading(l)   == link[l] = "read" /\ to[l] = <<>> /\ from[l] = <<>>
Answering(l) == link[l] = "wait" /\ to[l] = <<>> /\ from[l] # <<>> /\ Len(from[l]) = 1
Gone(l)      == link[l] \in {"failed", "panicked"} /\ to[l] = <<>> /\ from[l] = <<>>
Heard(l)     == Answering(l) \/ Collected(l)

Current == reply[main.test]
Sender  == Tests[main.test].send_link

\* A link is idle but between its question and its answer.
PhaseOk(l) ==
  IF Given(l) /\ ~Collected(l) THEN Asked(l) \/ Reading(l) \/ Answering(l) \/ Gone(l)
  ELSE Idle(l)

\* A link answers when nothing of the test is on its way to or from it.
HeardOk(l) ==
  Heard(l) => /\ at_router = <<>> /\ outbox[l] = <<>> /\ inbox[l] = <<>>
              /\ Current # <<>> \/ Gone(Sender)

\* What the router sends on a link reaches its thread.
NotLost(l) ==
  Current # <<>> /\ Current[l] # "none" /\ outbox[l] = <<>> /\ inbox[l] = <<>> =>
    Heard(l) \/ Gone(l) \/ stream[l] = "reset"

\* So the thread answers with what the router sent.
AnswerOk(l) ==
  Answering(l) /\ Current # <<>> =>
    LET m == from[l][1]  v == Current[l] IN
    /\ v = "none" => m.kind = "inactive"
    /\ v = "short" => m.kind = "error"
    /\ v \in {"right", "wrong"} => m.kind = "packet" /\ m.test = main.test /\ m.value = v

LinkOk(l) == PhaseOk(l) /\ HeardOk(l) /\ NotLost(l) /\ AnswerOk(l)

\* The packet of the test reaches the router, or its link is gone.
AskedOk ==
  Current = <<>> /\ at_router = <<>> => ~Given(Sender) \/ Asked(Sender) \/ Gone(Sender)

\* What the main thread has noted of the links it has heard.
MarksOk ==
  /\ \A t \in Cases : t >= main.test => errors[t] # "passed"
  /\ main.pc = "send" => main.i < ROUTER_LINK_COUNT
  /\ main.pc = "send" \/ main.i = 0 => ~main.failed /\ main.count = 0
  /\ main.pc = "recv" /\ Current # <<>> =>
       /\ main.failed <=> \E l \in Links : l < main.i /\ Current[l] # Expected(main.test)[l]
       /\ ~main.failed => main.count = Cardinality(Met) /\ (Met # {} => main.received)

TestingInv == Prompt /\ Testing => (\A l \in Links : LinkOk(l)) /\ AskedOk /\ MarksOk

\* All that is on its way to the router or back is of the test in progress.
OnlyInv ==
  Prompt =>
  /\ \A l \in Links : stream[l] # "eof"
  /\ \A n \in 1 .. Len(at_router) : at_router[n] = main.test
  /\ \A l \in Links :
       /\ \A n \in 1 .. Len(to[l]) : to[l][n].kind = "active" => to[l][n].test = main.test
       /\ \A n \in 1 .. Len(outbox[l]) : outbox[l][n].test = main.test
       /\ \A n \in 1 .. Len(inbox[l]) : inbox[l][n].test = main.test
       /\ Len(outbox[l]) + Len(inbox[l]) <= 1

\* Tests that are over were answered, and have the verdict they deserve.
DeservedInv ==
  Prompt => \A k \in Cases :
    k < main.test \/ main.pc \in {"report", "finish", "end"} =>
      reply[k] # <<>> /\ (errors[k] = "passed" <=> reply[k] = Expected(k))

LEMMA OneFacts ==
  ASSUME NEW S, NEW s \in Seq(S)
  PROVE  /\ Len(s) \in Nat /\ (s = <<>> <=> Len(s) = 0)
         /\ Len(s) = 1 => s # <<>> /\ Head(s) = s[1] /\ s[1] \in S /\ Tail(s) = <<>>
<1>1. Len(s) \in Nat /\ (s = <<>> <=> Len(s) = 0)
  BY EmptySeq
<1>2. ASSUME Len(s) = 1 PROVE s # <<>> /\ Head(s) = s[1] /\ s[1] \in S /\ Tail(s) = <<>>
  <2>1. s # <<>> /\ 1 \in 1 .. Len(s)
    BY <1>1, <1>2
  <2>2. Tail(s) \in Seq(S) /\ Len(Tail(s)) = 0
    BY <1>2, <2>1, HeadTailProperties
  <2>3. Tail(s) = <<>>
    BY <2>2, EmptySeq
  <2>4. s[1] \in S
    BY <2>1, ElementOfSeq
  <2> QED
    BY <2>1, <2>3, <2>4
<1> QED
  BY <1>1, <1>2

\* A message put in an empty channel is alone there.
LEMMA PutAlone ==
  ASSUME NEW S, NEW c \in [Links -> Seq(S)], NEW l \in Links, c[l] = <<>>, NEW m \in S
  PROVE  /\ Put(c, l, m)[l] = <<m>>
         /\ \A k \in Links \ {l} : Put(c, l, m)[k] = c[k]
<1>1. Append(<<>>, m) = <<m>>
  OBVIOUS
<1> QED
  BY <1>1 DEF Put

LEMMA SingleFacts ==
  ASSUME NEW m
  PROVE  /\ <<m>> # <<>> /\ Len(<<m>>) = 1 /\ <<m>>[1] = m
         /\ Head(<<m>>) = m /\ Tail(<<m>>) = <<>>
OBVIOUS

\* The same test and environment.
LEMMA SameTest ==
  ASSUME TypeOK, UNCHANGED <<env, main>>
  PROVE  /\ (Prompt' <=> Prompt) /\ (Testing' <=> Testing) /\ Tests' = Tests /\ Cases' = Cases
         /\ Sender' = Sender /\ Met' = Met
         /\ \A l \in Links :
              /\ Given(l)' <=> Given(l)
              /\ Collected(l)' <=> Collected(l)
              /\ Question(l)' = Question(l)
BY DEF Prompt, Testing, Tests, Cases, Sender, Met, Given, Collected, Question

\* A link that a step does not touch stays where it is.
LEMMA LinkFrame ==
  ASSUME TypeOK, UNCHANGED <<env, main, reply>>, NEW l \in Links, LinkOk(l),
         link'[l] = link[l], to'[l] = to[l], from'[l] = from[l],
         outbox'[l] = outbox[l], inbox'[l] = inbox[l], stream'[l] = stream[l],
         Heard(l) => at_router' = <<>>, Gone(Sender) => Gone(Sender)'
  PROVE  LinkOk(l)'
<1>1. /\ Sender' = Sender /\ (Given(l)' <=> Given(l)) /\ (Collected(l)' <=> Collected(l))
      /\ Question(l)' = Question(l) /\ Current' = Current
  BY SameTest DEF Current
<1>2. /\ Idle(l)' <=> Idle(l)
      /\ Asked(l)' <=> Asked(l)
      /\ Reading(l)' <=> Reading(l)
      /\ Answering(l)' <=> Answering(l)
      /\ Gone(l)' <=> Gone(l)
  BY <1>1 DEF Idle, Asked, Reading, Answering, Gone
<1>3. Heard(l)' <=> Heard(l)
  BY <1>1, <1>2 DEF Heard
<1>4. PhaseOk(l)'
  BY <1>1, <1>2 DEF PhaseOk, LinkOk
<1>5. HeardOk(l)'
  BY <1>1, <1>3 DEF HeardOk, LinkOk
<1>6. NotLost(l)'
  BY <1>1, <1>2, <1>3 DEF NotLost, LinkOk
<1>7. AnswerOk(l)'
  BY <1>1, <1>2 DEF AnswerOk, LinkOk
<1> QED
  BY <1>4, <1>5, <1>6, <1>7 DEF LinkOk

\* What the main thread has noted stays true while it does not move.
LEMMA MarksFrame ==
  ASSUME TypeOK, UNCHANGED <<env, main, errors, reply>>, MarksOk
  PROVE  MarksOk'
<1>1. /\ Met' = Met /\ Cases' = Cases /\ Tests' = Tests /\ Current' = Current
  BY SameTest DEF Current
<1>2. Expected(main.test)' = Expected(main.test)
  BY <1>1 DEF Expected, Expects
<1> QED
  BY <1>1, <1>2 DEF MarksOk

\* A link thread is in one place: what it does, or what is in its channels,
\* tells which.
LEMMA WhoIsWhere ==
  ASSUME TypeOK, NEW l \in Links, Testing, PhaseOk(l)
  PROVE  /\ link[l] = "read" => Reading(l)
         /\ to[l] # <<>> => Asked(l)
         /\ from[l] # <<>> => Answering(l)
         /\ Reading(l) => ~Asked(l) /\ ~Answering(l) /\ ~Gone(l) /\ ~Idle(l)
         /\ Asked(l) => ~Answering(l) /\ ~Gone(l) /\ ~Idle(l)
         /\ Answering(l) => ~Gone(l) /\ ~Idle(l)
         /\ Reading(l) \/ Asked(l) \/ Answering(l) => Given(l) /\ ~Collected(l)
         /\ Given(l) /\ ~Collected(l) => Asked(l) \/ Reading(l) \/ Answering(l) \/ Gone(l)
         /\ ~Given(l) \/ Collected(l) => Idle(l)
<1>1. <<Question(l)>> # <<>>
  OBVIOUS
<1> QED
  BY <1>1 DEF PhaseOk, Idle, Asked, Reading, Answering, Gone

\* A step of one link leaves the others where they are.
LEMMA OneLinkMoves ==
  ASSUME TypeOK, UNCHANGED <<env, main, reply>>, NEW x \in Links,
         \A l \in Links \ {x} :
           /\ link'[l] = link[l] /\ to'[l] = to[l] /\ from'[l] = from[l]
           /\ outbox'[l] = outbox[l] /\ inbox'[l] = inbox[l] /\ stream'[l] = stream[l]
           /\ Heard(l) => at_router' = <<>>,
         \A l \in Links : LinkOk(l), Gone(x) => Gone(x)', LinkOk(x)'
  PROVE  \A l \in Links : LinkOk(l)'
<1>1. Sender \in Links
  BY TypeFacts, MainFields, TestFacts DEF Sender
<1>2. Gone(Sender) => Gone(Sender)'
  <2>1. CASE Sender = x
    BY <2>1, SameTest
  <2>2. CASE Sender # x
    <3>1. Sender' = Sender
      BY SameTest
    <3> QED
      BY <1>1, <2>2, <3>1 DEF Gone
  <2> QED
    BY <2>1, <2>2
<1>3. ASSUME NEW l \in Links \ {x} PROVE LinkOk(l)'
  BY <1>2, <1>3, LinkFrame
<1> QED
  BY <1>3

LEMMA SenderFacts ==
  ASSUME TypeOK
  PROVE  /\ Sender \in Links /\ main.test \in Cases /\ main.i \in 0 .. ROUTER_LINK_COUNT
         /\ \A l \in Links : Question(l).kind = "active" <=> l = Sender
         /\ Question(Sender).test = main.test
         /\ \A l \in Links : Question(l).kind \in {"active", "inactive"}
<1>1. Sender \in Links /\ main.test \in Cases /\ main.i \in 0 .. ROUTER_LINK_COUNT
  BY TypeFacts, MainFields, TestFacts DEF Sender
<1> QED
  BY <1>1 DEF Question, Sender

\* A link thread takes its question: the test goes to the router.
LEMMA TakeOk ==
  ASSUME TypeOK, SentInv, Prompt, Testing, OnlyInv, TestingInv, NEW x \in Links, LinkTake(x)
  PROVE  (\A l \in Links : LinkOk(l)') /\ AskedOk'
<1> DEFINE m == Head(to[x])
<1>1. (\A l \in Links : LinkOk(l)) /\ AskedOk
  BY DEF TestingInv
<1>2. Asked(x) /\ to[x] # <<>>
  BY <1>1, WhoIsWhere DEF LinkTake, LinkOk
<1>3. /\ link[x] = "wait" /\ to[x] = <<m>> /\ m = Question(x) /\ from[x] = <<>>
      /\ Tail(to[x]) = <<>> /\ ~Gone(x) /\ ~Answering(x) /\ Given(x) /\ ~Collected(x)
  BY <1>1, <1>2, SingleFacts, WhoIsWhere DEF Asked, LinkOk
<1>4. /\ UNCHANGED <<env, main, reply, from, outbox, inbox, stream>>
      /\ to' = [to EXCEPT ![x] = Tail(@)]
      /\ link \in [Links -> {"wait", "read", "ended", "failed", "panicked"}]
      /\ to \in [Links -> Seq(Message)]
  BY TypeFacts DEF LinkTake
<1>5. to'[x] = <<>> /\ from'[x] = <<>> /\ \A l \in Links \ {x} : to'[l] = to[l]
  BY <1>3, <1>4
<1>6. m.kind = "active" <=> x = Sender
  BY <1>3, SenderFacts
<1>7. m.kind = "active" => Current = <<>> /\ m.test = main.test
  <2> SUFFICES ASSUME m.kind = "active" PROVE Current = <<>> /\ m.test = main.test
    OBVIOUS
  <2>1. 1 \in 1 .. Len(to[x]) /\ to[x][1] = m
    BY <1>3, SingleFacts
  <2>2. m.test = main.test
    BY <1>3, <1>6, SenderFacts
  <2>3. reply[m.test] = <<>>
    BY <2>1 DEF SentInv
  <2> QED
    BY <2>2, <2>3 DEF Current
<1>8. \A l \in Links \ {x} : Heard(l) => at_router' = <<>>
  <2> SUFFICES ASSUME NEW l \in Links \ {x}, Heard(l) PROVE at_router' = <<>>
    OBVIOUS
  <2>1. at_router = <<>> /\ (Current # <<>> \/ Gone(Sender))
    BY <1>1 DEF LinkOk, HeardOk
  <2>2. m.kind # "active"
    BY <1>3, <1>6, <1>7, <2>1
  <2> QED
    BY <2>1, <2>2 DEF LinkTake
<1>9. link'[x] \in {"read", "failed"} /\ \A l \in Links \ {x} : link'[l] = link[l]
  <2>1. m.kind \in {"active", "inactive"}
    BY <1>3, SenderFacts
  <2>2. link' = [link EXCEPT ![x] = "read"] \/ link' = [link EXCEPT ![x] = "failed"]
    BY <2>1 DEF LinkTake, Move
  <2> QED
    BY <1>4, <2>2
<1>10. Reading(x)' \/ Gone(x)'
  BY <1>5, <1>9 DEF Reading, Gone
<1>11. LinkOk(x)'
  <2>1. Given(x)' /\ ~Collected(x)' /\ ~Heard(x)' /\ ~Answering(x)' /\ Current' = Current
    BY <1>3, <1>4, <1>5, SameTest DEF Heard, Answering, Current
  <2>2. ~Heard(x)
    BY <1>3 DEF Heard
  <2>3. NotLost(x)'
    BY <1>1, <1>3, <1>4, <2>1, <2>2 DEF NotLost, LinkOk
  <2> QED
    BY <1>10, <2>1, <2>3 DEF LinkOk, PhaseOk, HeardOk, AnswerOk
<1>12. AskedOk'
  <2>1. Current' = Current /\ Sender' = Sender /\ (Given(Sender)' <=> Given(Sender))
    BY <1>4, SameTest, SenderFacts DEF Current
  <2>2. CASE x = Sender /\ stream[x] # "reset"
    <3>1. at_router' = Append(at_router, m.test)
      <4>1. stream[x] = "open"
        BY <2>2, TypeFacts DEF OnlyInv
      <4> QED
        BY <1>6, <2>2, <4>1 DEF LinkTake
    <3>2. at_router' # <<>>
      <4>1. at_router \in Seq(Cases) /\ m.test \in Cases
        BY <1>6, <1>7, <2>2, TypeFacts, SenderFacts
      <4> HIDE DEF m
      <4> QED
        BY <3>1, <4>1, AppendProperties
    <3> QED
      BY <3>2 DEF AskedOk
  <2>3. CASE x = Sender /\ stream[x] = "reset"
    <3>1. link' = [link EXCEPT ![x] = "failed"]
      BY <1>6, <2>3 DEF LinkTake, Move
    <3>2. Gone(x)'
      BY <1>4, <1>5, <3>1 DEF Gone
    <3> QED
      BY <2>1, <2>3, <3>2 DEF AskedOk
  <2>4. CASE x # Sender
    <3>1. m.kind = "inactive"
      BY <1>3, <1>6, <2>4, SenderFacts
    <3>2. at_router' = at_router
      BY <3>1 DEF LinkTake
    <3>3. /\ Asked(Sender) => Asked(Sender)'
          /\ Gone(Sender) => Gone(Sender)'
      BY <1>4, <1>5, <1>9, <2>1, <2>4, SameTest, SenderFacts DEF Asked, Gone
    <3> QED
      BY <1>1, <2>1, <3>2, <3>3 DEF AskedOk
  <2> QED
    BY <2>2, <2>3, <2>4
<1> HIDE DEF m
<1>13. \A l \in Links \ {x} :
         /\ link'[l] = link[l] /\ to'[l] = to[l] /\ from'[l] = from[l]
         /\ outbox'[l] = outbox[l] /\ inbox'[l] = inbox[l] /\ stream'[l] = stream[l]
         /\ Heard(l) => at_router' = <<>>
  BY <1>4, <1>5, <1>8, <1>9
<1>14. \A l \in Links : LinkOk(l)'
  BY <1>1, <1>3, <1>4, <1>11, <1>13, OneLinkMoves
<1> QED
  BY <1>12, <1>14

LEMMA AnswerPlace ==
  ASSUME TypeOK, NEW x \in Links, Reading(x), NEW m \in Answered, Answer(x, m), to' = to
  PROVE  /\ Answering(x)' /\ from'[x] = <<m>> /\ from'[x][1] = m
         /\ \A l \in Links \ {x} : link'[l] = link[l] /\ from'[l] = from[l]
<1>1. /\ from \in [Links -> Seq(Answered)] /\ from[x] = <<>> /\ from' = Put(from, x, m)
      /\ link \in [Links -> {"wait", "read", "ended", "failed", "panicked"}]
      /\ link' = [link EXCEPT ![x] = "wait"] /\ to'[x] = <<>>
  BY TypeFacts DEF Answer, Move, Reading
<1>2. from'[x] = <<m>> /\ \A l \in Links \ {x} : from'[l] = from[l]
  BY <1>1, PutAlone
<1>3. link'[x] = "wait" /\ \A l \in Links \ {x} : link'[l] = link[l]
  BY <1>1
<1> QED
  BY <1>1, <1>2, <1>3, SingleFacts DEF Answering

\* A link that has nothing more to say.
LEMMA GoneIsOk ==
  ASSUME TypeOK, UNCHANGED <<env, main>>, NEW x \in Links, Given(x), ~Collected(x), Gone(x)'
  PROVE  LinkOk(x)'
<1>1. Given(x)' /\ ~Collected(x)' /\ ~Answering(x)' /\ ~Heard(x)'
  BY SameTest DEF Heard, Answering, Gone
<1> QED
  BY <1>1 DEF LinkOk, PhaseOk, HeardOk, NotLost, AnswerOk

\* A link thread reads an answer: it is the answer of this test.
LEMMA ReadOk ==
  ASSUME TypeOK, SentInv, SaidInv, Prompt, Testing, OnlyInv, TestingInv,
         NEW x \in Links, LinkRead(x)
  PROVE  (\A l \in Links : LinkOk(l)') /\ AskedOk'
<1> DEFINE p == Head(inbox[x])
<1>1. (\A l \in Links : LinkOk(l)) /\ AskedOk
  BY DEF TestingInv
<1>2. /\ link[x] = "read" /\ inbox[x] # <<>> /\ UNCHANGED <<env, main, reply, to, outbox, stream, at_router>>
      /\ inbox' = [inbox EXCEPT ![x] = <<>>]
      /\ inbox \in [Links -> Seq(Packet)] /\ outbox \in [Links -> Seq(Packet)]
  BY TypeFacts DEF LinkRead, router
<1>3. Reading(x) /\ Given(x) /\ ~Collected(x) /\ ~Gone(x)
  BY <1>1, <1>2, WhoIsWhere DEF LinkOk
<1>4. Len(inbox[x]) = 1 /\ outbox[x] = <<>>
  <2>1. Len(outbox[x]) + Len(inbox[x]) <= 1
    BY DEF OnlyInv
  <2>2. inbox[x] \in Seq(Packet) /\ outbox[x] \in Seq(Packet)
    BY <1>2
  <2>3. /\ Len(inbox[x]) \in Nat /\ Len(inbox[x]) # 0
        /\ Len(outbox[x]) \in Nat /\ (outbox[x] = <<>> <=> Len(outbox[x]) = 0)
    BY <1>2, <2>2, OneFacts
  <2>4. \A a, b \in Nat : a + b <= 1 /\ b # 0 => a = 0 /\ b = 1
    OBVIOUS
  <2>5. Len(outbox[x]) = 0 /\ Len(inbox[x]) = 1
    BY <2>1, <2>3, <2>4, Zenon
  <2> QED
    BY <2>3, <2>5, Zenon
<1>5. p \in Packet /\ p = inbox[x][1] /\ 1 \in 1 .. Len(inbox[x])
  BY <1>2, <1>4, OneFacts
<1>6. p.test = main.test /\ Current # <<>> /\ Current[x] = p.value
  <2>1. p.test = main.test
    BY <1>5 DEF OnlyInv
  <2>2. Says(p, x)
    BY <1>5 DEF SaidInv
  <2> QED
    BY <2>1, <2>2 DEF Says, Current
<1>7. at_router = <<>>
  <2>1. at_router \in Seq(Cases) /\ Len(at_router) \in Nat
    BY TypeFacts
  <2>2. ASSUME at_router # <<>> PROVE FALSE
    <3>1. 1 \in 1 .. Len(at_router)
      BY <2>1, <2>2, EmptySeq
    <3>2. at_router[1] = main.test /\ reply[at_router[1]] = <<>>
      BY <3>1 DEF OnlyInv, SentInv
    <3> QED
      BY <1>6, <3>2 DEF Current
  <2> QED
    BY <2>2
<1>8. Current' = Current /\ p.value \in {"right", "wrong", "short"} /\ p.test \in Cases
  BY <1>2, <1>5, PacketFacts DEF Current
<1> HIDE DEF p
<1>9. ASSUME NEW m \in Answered, Answer(x, m),
             p.value = "short" => m.kind = "error",
             p.value # "short" => m.kind = "packet" /\ m.test = p.test /\ m.value = p.value
      PROVE  LinkOk(x)' /\ \A l \in Links \ {x} : link'[l] = link[l] /\ from'[l] = from[l]
  <2>1. /\ Answering(x)' /\ from'[x] = <<m>> /\ from'[x][1] = m
        /\ \A l \in Links \ {x} : link'[l] = link[l] /\ from'[l] = from[l]
    BY <1>2, <1>3, <1>9, AnswerPlace
  <2>2. Given(x)' /\ ~Collected(x)'
    BY <1>2, <1>3, SameTest
  <2>3. HeardOk(x)' /\ NotLost(x)'
    <3>1. at_router' = <<>> /\ outbox'[x] = <<>> /\ inbox'[x] = <<>> /\ Current' # <<>>
      BY <1>2, <1>4, <1>6, <1>7, <1>8
    <3> QED
      BY <2>1, <3>1 DEF HeardOk, NotLost, Heard
  <2>4. AnswerOk(x)'
    <3>1. Current'[x] = p.value /\ main'.test = p.test
      BY <1>2, <1>6, <1>8
    <3> QED
      BY <1>8, <1>9, <2>1, <3>1 DEF AnswerOk
  <2> QED
    BY <2>1, <2>2, <2>3, <2>4 DEF LinkOk, PhaseOk
<1>10. LinkOk(x)' /\ \A l \in Links \ {x} : link'[l] = link[l] /\ from'[l] = from[l]
  <2>1. CASE p.value # "short" /\ Answer(x, [kind |-> "packet", test |-> p.test, value |-> p.value])
    <3> DEFINE a == [kind |-> "packet", test |-> p.test, value |-> p.value]
    <3>1. a \in Answered /\ a.kind = "packet" /\ a.test = p.test /\ a.value = p.value /\ Answer(x, a)
      BY <1>8, <2>1, Answers
    <3> HIDE DEF a
    <3> QED
      BY <1>9, <2>1, <3>1
  <2>2. CASE p.value = "short" /\ Answer(x, [kind |-> "error"])
    <3> DEFINE a == [kind |-> "error"]
    <3>1. a \in Answered /\ a.kind = "error" /\ Answer(x, a)
      BY <2>2, Answers
    <3> HIDE DEF a
    <3> QED
      BY <1>9, <2>2, <3>1
  <2>3. CASE Move(x, "panicked") /\ UNCHANGED from
    <3>1. link' = [link EXCEPT ![x] = "panicked"]
      BY <2>3 DEF Move
    <3>2. Gone(x)' /\ \A l \in Links \ {x} : link'[l] = link[l]
      BY <1>2, <1>3, <2>3, <3>1, TypeFacts DEF Gone, Reading
    <3> QED
      BY <1>2, <1>3, <2>3, <3>2, GoneIsOk
  <2> QED
    BY <1>4, <2>1, <2>2, <2>3 DEF LinkRead, p
<1>11. \A l \in Links \ {x} :
         /\ link'[l] = link[l] /\ to'[l] = to[l] /\ from'[l] = from[l]
         /\ outbox'[l] = outbox[l] /\ inbox'[l] = inbox[l] /\ stream'[l] = stream[l]
         /\ Heard(l) => at_router' = <<>>
  BY <1>2, <1>7, <1>10
<1>12. \A l \in Links : LinkOk(l)'
  BY <1>1, <1>2, <1>3, <1>10, <1>11, OneLinkMoves
<1>13. AskedOk'
  BY <1>6, <1>8 DEF AskedOk
<1> QED
  BY <1>12, <1>13

\* A link thread gives up waiting: there was nothing to wait for.
LEMMA TimeoutOk ==
  ASSUME TypeOK, Prompt, Testing, TestingInv, NEW x \in Links, LinkTimeout(x)
  PROVE  (\A l \in Links : LinkOk(l)') /\ AskedOk'
<1> DEFINE m == [kind |-> "inactive"]
<1>1. (\A l \in Links : LinkOk(l)) /\ AskedOk
  BY DEF TestingInv
<1>2. /\ link[x] = "read" /\ inbox[x] = <<>> /\ stream[x] = "open"
      /\ UNCHANGED <<env, main, reply, to, outbox, inbox, stream, at_router>>
      /\ m \in Answered /\ m.kind = "inactive" /\ Answer(x, m)
  BY Answers DEF LinkTimeout, router
<1>3. Reading(x) /\ Given(x) /\ ~Collected(x) /\ ~Gone(x) /\ ~Answering(x) /\ ~Asked(x)
  BY <1>1, <1>2, WhoIsWhere DEF LinkOk
<1> HIDE DEF m
<1>4. /\ Answering(x)' /\ from'[x] = <<m>> /\ from'[x][1] = m
      /\ \A l \in Links \ {x} : link'[l] = link[l] /\ from'[l] = from[l]
  BY <1>2, <1>3, AnswerPlace
<1>5. /\ at_router = <<>> /\ main.pc = "recv" /\ outbox[x] = <<>>
      /\ \A l \in Links : \A n \in DOMAIN to[l] : to[l][n].kind # "active"
  BY DEF LinkTimeout, Quiet, Prompt, Testing
<1>6. Current # <<>> \/ Gone(Sender)
  <2>1. Given(Sender)
    BY <1>5 DEF Given
  <2>2. ~Asked(Sender)
    <3> SUFFICES ASSUME Asked(Sender) PROVE FALSE
      OBVIOUS
    <3> DEFINE q == Question(Sender)
    <3>1. to[Sender] = <<q>> /\ q.kind = "active"
      BY SenderFacts DEF Asked
    <3> HIDE DEF q
    <3>2. 1 \in DOMAIN to[Sender] /\ to[Sender][1] = q
      BY <3>1
    <3> QED
      BY <1>5, <3>1, <3>2, SenderFacts
  <2> QED
    BY <1>1, <1>5, <2>1, <2>2 DEF AskedOk
<1>7. Current # <<>> => Current[x] = "none"
  <2>1. ~Heard(x)
    BY <1>3 DEF Heard
  <2> QED
    BY <1>1, <1>2, <1>3, <1>5, <2>1 DEF LinkOk, NotLost
<1>8. Gone(Sender) => Gone(Sender)'
  <2>1. Sender \in Links /\ Sender' = Sender
    BY <1>2, SenderFacts, SameTest
  <2> QED
    BY <1>2, <1>3, <1>4, <2>1 DEF Gone
<1>9. LinkOk(x)'
  <2>1. Given(x)' /\ ~Collected(x)' /\ Current' = Current
    BY <1>2, <1>3, SameTest DEF Current
  <2>2. HeardOk(x)' /\ NotLost(x)'
    BY <1>2, <1>4, <1>5, <1>6, <1>8, <2>1 DEF HeardOk, NotLost, Heard
  <2>3. AnswerOk(x)'
    BY <1>2, <1>4, <1>7, <2>1 DEF AnswerOk
  <2> QED
    BY <1>4, <2>1, <2>2, <2>3 DEF LinkOk, PhaseOk
<1>10. \A l \in Links \ {x} :
         /\ link'[l] = link[l] /\ to'[l] = to[l] /\ from'[l] = from[l]
         /\ outbox'[l] = outbox[l] /\ inbox'[l] = inbox[l] /\ stream'[l] = stream[l]
         /\ Heard(l) => at_router' = <<>>
  BY <1>2, <1>4, <1>5
<1>11. \A l \in Links : LinkOk(l)'
  BY <1>1, <1>2, <1>3, <1>9, <1>10, OneLinkMoves
<1>12. AskedOk'
  BY <1>2, <1>6, <1>8 DEF AskedOk, Current
<1> QED
  BY <1>11, <1>12

\* A reset ends the link thread.
LEMMA ResetOk ==
  ASSUME TypeOK, Prompt, Testing, TestingInv, NEW x \in Links, LinkReset(x)
  PROVE  (\A l \in Links : LinkOk(l)') /\ AskedOk'
<1>1. (\A l \in Links : LinkOk(l)) /\ AskedOk
  BY DEF TestingInv
<1>2. /\ link[x] = "read" /\ link' = [link EXCEPT ![x] = "failed"]
      /\ UNCHANGED <<env, main, reply, to, from, outbox, inbox, stream, at_router>>
      /\ link \in [Links -> {"wait", "read", "ended", "failed", "panicked"}]
  BY TypeFacts DEF LinkReset, Move, router, channels
<1>3. Reading(x) /\ Given(x) /\ ~Collected(x) /\ ~Gone(x) /\ ~Answering(x) /\ ~Asked(x)
  BY <1>1, <1>2, WhoIsWhere DEF LinkOk
<1>4. Gone(x)' /\ \A l \in Links \ {x} : link'[l] = link[l]
  BY <1>2, <1>3 DEF Gone, Reading
<1>5. LinkOk(x)'
  BY <1>2, <1>3, <1>4, GoneIsOk
<1>6. \A l \in Links \ {x} :
         /\ link'[l] = link[l] /\ to'[l] = to[l] /\ from'[l] = from[l]
         /\ outbox'[l] = outbox[l] /\ inbox'[l] = inbox[l] /\ stream'[l] = stream[l]
         /\ Heard(l) => at_router' = <<>>
  BY <1>1, <1>2, <1>4 DEF LinkOk, HeardOk
<1>7. \A l \in Links : LinkOk(l)'
  BY <1>1, <1>2, <1>4, <1>5, <1>6, OneLinkMoves
<1>8. AskedOk'
  <2>1. Current' = Current /\ Sender' = Sender /\ (Given(Sender)' <=> Given(Sender)) /\ Sender \in Links
        /\ Question(Sender)' = Question(Sender)
    BY <1>2, SameTest, SenderFacts DEF Current
  <2>2. /\ Gone(Sender) => Gone(Sender)'
        /\ Asked(Sender) => Asked(Sender)'
    BY <1>2, <1>3, <1>4, <2>1 DEF Gone, Asked
  <2> QED
    BY <1>1, <1>2, <2>1, <2>2 DEF AskedOk
<1> QED
  BY <1>7, <1>8

\* An answer arrives, unless the connection has been reset.
LEMMA ArriveOk ==
  ASSUME TypeOK, Prompt, Testing, OnlyInv, TestingInv, NEW x \in Links, Arrive(x)
  PROVE  (\A l \in Links : LinkOk(l)') /\ AskedOk'
<1>1. (\A l \in Links : LinkOk(l)) /\ AskedOk
  BY DEF TestingInv
<1>2. /\ outbox[x] # <<>> /\ outbox' = [outbox EXCEPT ![x] = Tail(@)]
      /\ UNCHANGED <<env, main, reply, link, to, from, stream, at_router>>
      /\ outbox \in [Links -> Seq(Packet)] /\ inbox \in [Links -> Seq(Packet)]
  BY TypeFacts DEF Arrive, channels
<1>3. ~Heard(x)
  BY <1>1, <1>2 DEF LinkOk, HeardOk
<1>4. inbox[x] = <<>>
  <2>1. Len(outbox[x]) + Len(inbox[x]) <= 1
    BY DEF OnlyInv
  <2>2. inbox[x] \in Seq(Packet) /\ outbox[x] \in Seq(Packet)
    BY <1>2
  <2>3. /\ Len(outbox[x]) \in Nat /\ Len(outbox[x]) # 0
        /\ Len(inbox[x]) \in Nat /\ (inbox[x] = <<>> <=> Len(inbox[x]) = 0)
    BY <1>2, <2>2, OneFacts
  <2>4. \A a, b \in Nat : a + b <= 1 /\ a # 0 => b = 0
    OBVIOUS
  <2>5. Len(inbox[x]) = 0
    BY <2>1, <2>3, <2>4, Zenon
  <2> QED
    BY <2>3, <2>5, Zenon
<1>5. stream[x] = "open" => inbox'[x] # <<>>
  <2> DEFINE q == Head(outbox[x])
  <2>1. q \in Packet
    BY <1>2, TakeFacts
  <2> HIDE DEF q
  <2>2. Put(inbox, x, q)[x] = <<q>> /\ <<q>> # <<>>
    BY <1>2, <1>4, <2>1, PutAlone
  <2> QED
    BY <2>2 DEF Arrive, q
<1>6. \A l \in Links \ {x} : outbox'[l] = outbox[l] /\ inbox'[l] = inbox[l]
  BY <1>2 DEF Arrive, Put
<1>7. LinkOk(x)'
  <2>1. /\ (Given(x)' <=> Given(x)) /\ (Collected(x)' <=> Collected(x))
        /\ Question(x)' = Question(x) /\ Current' = Current
    BY <1>2, SameTest DEF Current
  <2>2. /\ Idle(x)' <=> Idle(x)
        /\ Asked(x)' <=> Asked(x)
        /\ Reading(x)' <=> Reading(x)
        /\ Answering(x)' <=> Answering(x)
        /\ Gone(x)' <=> Gone(x)
    BY <1>2, <2>1 DEF Idle, Asked, Reading, Answering, Gone
  <2>3. PhaseOk(x)'
    BY <1>1, <2>1, <2>2 DEF PhaseOk, LinkOk
  <2>4. HeardOk(x)'
    BY <1>3, <2>1, <2>2 DEF HeardOk, Heard
  <2>5. NotLost(x)'
    <3>1. stream'[x] \in {"open", "reset"}
      BY <1>2, TypeFacts DEF OnlyInv
    <3> QED
      BY <1>2, <1>5, <3>1 DEF NotLost
  <2>6. AnswerOk(x)'
    BY <1>3, <2>2 DEF AnswerOk, Heard
  <2> QED
    BY <2>3, <2>4, <2>5, <2>6 DEF LinkOk
<1>8. \A l \in Links \ {x} :
         /\ link'[l] = link[l] /\ to'[l] = to[l] /\ from'[l] = from[l]
         /\ outbox'[l] = outbox[l] /\ inbox'[l] = inbox[l] /\ stream'[l] = stream[l]
         /\ Heard(l) => at_router' = <<>>
  BY <1>1, <1>2, <1>6 DEF LinkOk, HeardOk
<1>9. Gone(x) => Gone(x)'
  BY <1>2 DEF Gone
<1>10. \A l \in Links : LinkOk(l)'
  BY <1>1, <1>2, <1>7, <1>8, <1>9, OneLinkMoves
<1>11. AskedOk'
  <2>1. Current' = Current /\ Sender' = Sender /\ (Given(Sender)' <=> Given(Sender)) /\ Sender \in Links
        /\ Question(Sender)' = Question(Sender)
    BY <1>2, SameTest, SenderFacts DEF Current
  <2> QED
    BY <1>1, <1>2, <2>1 DEF AskedOk, Asked, Gone
<1> QED
  BY <1>10, <1>11

\* A connection is reset.
LEMMA BreakOk ==
  ASSUME TypeOK, Prompt, Testing, TestingInv, NEW x \in Links, Break(x)
  PROVE  (\A l \in Links : LinkOk(l)') /\ AskedOk'
<1>1. (\A l \in Links : LinkOk(l)) /\ AskedOk
  BY DEF TestingInv
<1>2. stream'[x] = "reset" /\ \A l \in Links \ {x} : stream'[l] = stream[l]
  <2>1. env.breaks \subseteq {"eof", "reset"} /\ "eof" \notin env.breaks
    BY TypeFacts, SimulationAssumption DEF Prompt, IsEnvironment
  <2>2. stream' = [stream EXCEPT ![x] = "reset"]
    BY <2>1 DEF Break
  <2> QED
    BY <2>2, TypeFacts
<1>3. UNCHANGED <<env, main, reply, link, to, from, outbox, inbox, at_router>>
  BY DEF Break, channels, router
<1>4. /\ (Given(x)' <=> Given(x)) /\ (Collected(x)' <=> Collected(x)) /\ Sender' = Sender
      /\ Question(x)' = Question(x) /\ Current' = Current /\ Sender \in Links
      /\ (Given(Sender)' <=> Given(Sender)) /\ Question(Sender)' = Question(Sender)
  BY <1>3, SameTest, SenderFacts DEF Current
<1>5. LinkOk(x)'
  <2>2. /\ Idle(x)' <=> Idle(x)
        /\ Asked(x)' <=> Asked(x)
        /\ Reading(x)' <=> Reading(x)
        /\ Answering(x)' <=> Answering(x)
        /\ Gone(x)' <=> Gone(x)
    BY <1>3, <1>4 DEF Idle, Asked, Reading, Answering, Gone
  <2>3. PhaseOk(x)'
    BY <1>1, <1>4, <2>2 DEF PhaseOk, LinkOk
  <2>4. HeardOk(x)'
    BY <1>1, <1>3, <1>4, <2>2 DEF LinkOk, HeardOk, Heard, Gone
  <2>5. NotLost(x)'
    BY <1>2 DEF NotLost
  <2>6. AnswerOk(x)'
    BY <1>1, <1>3, <1>4, <2>2 DEF LinkOk, AnswerOk
  <2> QED
    BY <2>3, <2>4, <2>5, <2>6 DEF LinkOk
<1>6. \A l \in Links \ {x} :
         /\ link'[l] = link[l] /\ to'[l] = to[l] /\ from'[l] = from[l]
         /\ outbox'[l] = outbox[l] /\ inbox'[l] = inbox[l] /\ stream'[l] = stream[l]
         /\ Heard(l) => at_router' = <<>>
  BY <1>1, <1>2, <1>3 DEF LinkOk, HeardOk
<1>7. Gone(x) => Gone(x)'
  BY <1>3 DEF Gone
<1>8. \A l \in Links : LinkOk(l)'
  BY <1>1, <1>3, <1>5, <1>6, <1>7, OneLinkMoves
<1>9. AskedOk'
  BY <1>1, <1>3, <1>4 DEF AskedOk, Asked, Gone
<1> QED
  BY <1>8, <1>9

\* The test the router answers is the one in progress, not answered so far,
\* and nothing of it is on its way back.
LEMMA ReplyFacts ==
  ASSUME TypeOK, SentInv, OnlyInv, Prompt, at_router # <<>>
  PROVE  /\ Head(at_router) = main.test /\ Current = <<>> /\ Len(at_router) = 1
         /\ Tail(at_router) = <<>>
<1>1. at_router \in Seq(Cases) /\ Len(at_router) \in Nat /\ Len(at_router) # 0
  BY TypeFacts, EmptySeq
<1>2. 1 \in 1 .. Len(at_router) /\ at_router[1] = main.test /\ reply[at_router[1]] = <<>>
  BY <1>1 DEF OnlyInv, SentInv
<1>3. Len(at_router) = 1
  <2> SUFFICES ASSUME Len(at_router) # 1 PROVE FALSE
    OBVIOUS
  <2>0. \A n \in Nat : n # 0 /\ n # 1 => 2 \in 1 .. n
    OBVIOUS
  <2>1. 2 \in 1 .. Len(at_router)
    BY <1>1, <2>0, Zenon
  <2>2. at_router[2] = at_router[1]
    BY <1>2, <2>1 DEF OnlyInv
  <2> QED
    BY <1>2, <2>1, <2>2 DEF SentInv
<1> QED
  BY <1>1, <1>2, <1>3, OneFacts DEF Current

\* Nothing the router has not answered is on its way back.
LEMMA NothingBack ==
  ASSUME TypeOK, SaidInv, OnlyInv, Prompt, Current = <<>>, NEW l \in Links
  PROVE  outbox[l] = <<>> /\ inbox[l] = <<>>
<1>1. outbox[l] \in Seq(Packet) /\ inbox[l] \in Seq(Packet)
  BY TypeFacts
<1>2. ASSUME outbox[l] # <<>> PROVE FALSE
  <2>1. 1 \in 1 .. Len(outbox[l])
    BY <1>1, <1>2, EmptySeq
  <2>2. outbox[l][1].test = main.test /\ Says(outbox[l][1], l)
    BY <2>1 DEF OnlyInv, SaidInv
  <2> QED
    BY <2>2 DEF Says, Current
<1>3. ASSUME inbox[l] # <<>> PROVE FALSE
  <2>1. 1 \in 1 .. Len(inbox[l])
    BY <1>1, <1>3, EmptySeq
  <2>2. inbox[l][1].test = main.test /\ Says(inbox[l][1], l)
    BY <2>1 DEF OnlyInv, SaidInv
  <2> QED
    BY <2>2 DEF Says, Current
<1> QED
  BY <1>2, <1>3

LEMMA ReplyOutbox ==
  ASSUME TypeOK, SentInv, SaidInv, OnlyInv, Prompt, RouterReply
  PROVE  /\ Current' # <<>> /\ at_router' = <<>>
         /\ \A l \in Links :
              \/ Current'[l] = "none" /\ outbox'[l] = <<>>
              \/ outbox'[l] = <<[test |-> main.test, value |-> Current'[l]]>>
<1> DEFINE k == Head(at_router)
<1>1. PICK r \in [Links -> ReplyValues] :
        /\ reply' = [reply EXCEPT ![k] = r]
        /\ outbox' = [l \in Links |->
             IF r[l] = "none" THEN outbox[l] ELSE Append(outbox[l], [test |-> k, value |-> r[l]])]
  BY DEF RouterReply
<1>2. /\ k = main.test /\ Current = <<>> /\ Tail(at_router) = <<>> /\ main.test \in Cases
      /\ at_router' = Tail(at_router) /\ main' = main
  BY ReplyFacts, SenderFacts DEF RouterReply
<1> HIDE DEF k
<1>3. Current' = r
  BY <1>1, <1>2, TypeFacts DEF Current
<1>4. r # <<>>
  <2>1. 0 \in DOMAIN r /\ 0 \notin DOMAIN <<>>
    BY LinkFacts
  <2> QED
    BY <2>1
<1>5. ASSUME NEW l \in Links
      PROVE  \/ r[l] = "none" /\ outbox'[l] = <<>>
             \/ outbox'[l] = <<[test |-> main.test, value |-> r[l]]>>
  <2>1. outbox[l] = <<>>
    BY <1>2, NothingBack
  <2>2. CASE r[l] = "none"
    BY <1>1, <2>1, <2>2
  <2>3. CASE r[l] # "none"
    <3> DEFINE m == [test |-> main.test, value |-> r[l]]
    <3>1. outbox'[l] = Append(<<>>, m)
      BY <1>1, <1>2, <2>1, <2>3
    <3>2. \A a : Append(<<>>, a) = <<a>>
      OBVIOUS
    <3> QED
      BY <3>1, <3>2, Zenon
  <2> QED
    BY <2>2, <2>3
<1> QED
  BY <1>2, <1>3, <1>4, <1>5

\* The router answers the test.
LEMMA ReplyOk ==
  ASSUME TypeOK, SentInv, SaidInv, Prompt, Testing, OnlyInv, TestingInv, RouterReply
  PROVE  (\A l \in Links : LinkOk(l)') /\ AskedOk' /\ MarksOk'
<1>1. (\A l \in Links : LinkOk(l)) /\ AskedOk /\ MarksOk
  BY DEF TestingInv
<1>2. /\ UNCHANGED <<env, main, errors, link, to, from, inbox, stream>> /\ at_router # <<>>
  BY DEF RouterReply, verdicts, channels
<1>3. /\ Current' # <<>> /\ at_router' = <<>>
      /\ \A l \in Links :
           \/ Current'[l] = "none" /\ outbox'[l] = <<>>
           \/ outbox'[l] = <<[test |-> main.test, value |-> Current'[l]]>>
  BY ReplyOutbox
<1>4. \A l \in Links : ~Heard(l)
  BY <1>1, <1>2 DEF LinkOk, HeardOk
<1>5. ASSUME NEW l \in Links PROVE LinkOk(l)'
  <2>1. /\ (Given(l)' <=> Given(l)) /\ (Collected(l)' <=> Collected(l)) /\ Question(l)' = Question(l)
    BY <1>2, SameTest
  <2>2. /\ Idle(l)' <=> Idle(l)
        /\ Asked(l)' <=> Asked(l)
        /\ Reading(l)' <=> Reading(l)
        /\ Answering(l)' <=> Answering(l)
        /\ Gone(l)' <=> Gone(l)
    BY <1>2, <2>1 DEF Idle, Asked, Reading, Answering, Gone
  <2>3. PhaseOk(l)'
    BY <1>1, <2>1, <2>2 DEF PhaseOk, LinkOk
  <2>4. ~Heard(l)' /\ ~Answering(l)'
    BY <1>4, <2>1, <2>2 DEF Heard
  <2>5. outbox'[l] = <<>> => Current'[l] = "none"
    <3>1. \A a : <<a>> # <<>>
      OBVIOUS
    <3> QED
      BY <1>3, <3>1, Zenon
  <2> QED
    BY <2>3, <2>4, <2>5 DEF LinkOk, HeardOk, NotLost, AnswerOk
<1>6. AskedOk'
  BY <1>3 DEF AskedOk
<1>7. MarksOk'
  <2>1. Met' = Met /\ Cases' = Cases /\ main.i \in Nat
    BY <1>2, SameTest, SenderFacts, LinkFacts
  <2>2. main.pc = "recv" => main.i = 0
    <3> SUFFICES ASSUME main.pc = "recv", main.i # 0 PROVE FALSE
      OBVIOUS
    <3>1. 0 \in Links /\ 0 < main.i
      BY <2>1, LinkFacts
    <3> QED
      BY <1>4, <3>1 DEF Heard, Collected
  <2>3. main.i = 0 => Met = {} /\ Cardinality(Met) = 0 /\ \A l \in Links : ~ (l < main.i)
    <3> SUFFICES ASSUME main.i = 0 PROVE Met = {} /\ \A l \in Links : ~ (l < main.i)
      BY FS_EmptySet
    <3>1. \A l \in Links : ~ (l < main.i)
      BY LinkFacts
    <3>2. Tests[main.test].recv_links \subseteq Links
      BY TypeFacts, TestFacts, SenderFacts
    <3> QED
      BY <3>1, <3>2 DEF Met
  <2>4. main.pc = "recv" => ~main.failed /\ main.count = 0
    BY <1>1, <2>2 DEF MarksOk
  <2> QED
    BY <1>1, <1>2, <2>1, <2>2, <2>3, <2>4 DEF MarksOk
<1> QED
  BY <1>5, <1>6, <1>7

\* The main thread gives the next link its question.
LEMMA SendOk ==
  ASSUME TypeOK, Prompt, TestingInv, MainSend, NEW x \in Links, x = main.i
  PROVE  (\A l \in Links : LinkOk(l)') /\ AskedOk' /\ MarksOk'
<1> DEFINE q == Question(x)
<1>1. (\A l \in Links : LinkOk(l)) /\ AskedOk /\ MarksOk /\ main.pc = "send"
  BY DEF TestingInv, Testing, MainSend
<1>2. /\ UNCHANGED <<env, reply, errors, link, from, outbox, inbox, stream, at_router>>
      /\ Proceed("recv") /\ Tests' = Tests
  BY DEF MainSend, verdicts, router, Tests
<1>3. x \in Links /\ x < ROUTER_LINK_COUNT /\ x \in Nat
  BY LinkFacts
<1>4. to' = Put(to, x, q) /\ q \in Message
  BY SenderFacts, Messages DEF MainSend, Question
<1>5. /\ main'.test = main.test /\ main'.count = main.count /\ main'.failed = main.failed
      /\ \/ main'.pc = "send" /\ main'.i = x + 1 /\ x + 1 < ROUTER_LINK_COUNT
         \/ main'.pc = "recv" /\ main'.i = 0 /\ ~ (x + 1 < ROUTER_LINK_COUNT)
  <2>1. /\ main'.test = main.test /\ main'.count = main.count /\ main'.failed = main.failed
    BY <1>2, ProceedFields
  <2>2. CASE x + 1 < ROUTER_LINK_COUNT
    BY <1>1, <1>2, <2>1, <2>2, TypeFacts DEF Proceed, MainState
  <2>3. CASE ~ (x + 1 < ROUTER_LINK_COUNT)
    BY <1>1, <1>2, <2>1, <2>3, TypeFacts DEF Proceed, MainState
  <2> QED
    BY <2>2, <2>3
<1>6. /\ Sender' = Sender /\ Current' = Current /\ Cases' = Cases /\ Sender \in Links
      /\ \A l : Question(l)' = Question(l)
  BY <1>2, <1>5, SenderFacts DEF Sender, Current, Cases, Question
<1>7. /\ \A l \in Links : ~Collected(l) /\ ~Collected(l)'
      /\ \A l \in Links \ {x} : Given(l)' <=> Given(l)
      /\ Given(x)' /\ ~Given(x)
  <2>1. \A l \in Links : l \in Nat /\ l < ROUTER_LINK_COUNT
    BY LinkFacts
  <2>2. ASSUME NEW l \in Links PROVE ~Collected(l) /\ ~Collected(l)'
    BY <1>1, <1>5, <2>1 DEF Collected
  <2>3. ASSUME NEW l \in Links \ {x} PROVE Given(l)' <=> Given(l)
    <3>1. l \in Nat /\ l < ROUTER_LINK_COUNT /\ l # x /\ ROUTER_LINK_COUNT \in Nat
      BY <2>1, LinkFacts
    <3>2. CASE main'.pc = "send" /\ main'.i = x + 1
      BY <1>1, <1>3, <3>1, <3>2 DEF Given
    <3>3. CASE main'.pc = "recv" /\ ~ (x + 1 < ROUTER_LINK_COUNT)
      BY <1>1, <1>3, <3>1, <3>3 DEF Given
    <3> QED
      BY <1>5, <3>2, <3>3
  <2>4. Given(x)' /\ ~Given(x)
    BY <1>1, <1>3, <1>5 DEF Given
  <2> QED
    BY <2>2, <2>3, <2>4
<1> HIDE DEF q
<1>8. Idle(x) /\ LinkOk(x)
  BY <1>1, <1>3, <1>7 DEF LinkOk, PhaseOk
<1>9. to'[x] = <<q>> /\ \A l \in Links \ {x} : to'[l] = to[l]
  <2>1. to \in [Links -> Seq(Message)] /\ to[x] = <<>>
    BY <1>8, TypeFacts DEF Idle
  <2> QED
    BY <1>3, <1>4, <2>1, PutAlone
<1>10. Asked(x)' /\ ~Heard(x) /\ ~Heard(x)' /\ ~Gone(x) /\ ~Answering(x)'
  <2>1. Asked(x)'
    BY <1>2, <1>6, <1>8, <1>9 DEF Asked, Idle, q
  <2>2. ~Answering(x)' /\ ~Answering(x)
    <3>1. <<q>> # <<>>
      OBVIOUS
    <3> QED
      BY <1>8, <1>9, <3>1 DEF Answering, Idle
  <2> QED
    BY <1>3, <1>7, <1>8, <2>1, <2>2 DEF Heard, Gone, Idle
<1>11. Gone(Sender) => Gone(Sender)'
  BY <1>2, <1>6, <1>9, <1>10 DEF Gone
<1>12. LinkOk(x)'
  <2>1. NotLost(x)'
    BY <1>2, <1>6, <1>8, <1>10 DEF LinkOk, NotLost
  <2> QED
    BY <1>3, <1>7, <1>10, <2>1 DEF LinkOk, PhaseOk, HeardOk, AnswerOk
<1>13. ASSUME NEW l \in Links \ {x} PROVE LinkOk(l)'
  <2>0. LinkOk(l) /\ to'[l] = to[l] /\ (Given(l)' <=> Given(l)) /\ ~Collected(l) /\ ~Collected(l)'
    BY <1>1, <1>7, <1>9
  <2>1. /\ Idle(l)' <=> Idle(l)
        /\ Asked(l)' <=> Asked(l)
        /\ Reading(l)' <=> Reading(l)
        /\ Answering(l)' <=> Answering(l)
        /\ Gone(l)' <=> Gone(l)
    BY <1>2, <1>6, <2>0 DEF Idle, Asked, Reading, Answering, Gone
  <2>2. Heard(l)' <=> Heard(l)
    BY <2>0, <2>1 DEF Heard
  <2>3. PhaseOk(l)'
    BY <2>0, <2>1 DEF LinkOk, PhaseOk
  <2>4. HeardOk(l)'
    BY <1>2, <1>6, <1>11, <2>0, <2>2 DEF LinkOk, HeardOk
  <2>5. NotLost(l)'
    BY <1>2, <1>6, <2>0, <2>1, <2>2 DEF LinkOk, NotLost
  <2>6. AnswerOk(l)'
    BY <1>2, <1>5, <1>6, <2>0, <2>1 DEF LinkOk, AnswerOk
  <2> QED
    BY <2>3, <2>4, <2>5, <2>6 DEF LinkOk
<1>14. AskedOk'
  <2>1. CASE Sender = x
    BY <1>6, <1>10, <2>1 DEF AskedOk
  <2>2. CASE Sender # x
    <3>1. Given(Sender)' <=> Given(Sender)
      BY <1>6, <1>7, <2>2 DEF Given
    <3>2. Asked(Sender) => Asked(Sender)'
      BY <1>2, <1>6, <1>9, <2>2 DEF Asked
    <3> QED
      BY <1>1, <1>2, <1>6, <1>11, <3>1, <3>2 DEF AskedOk
  <2> QED
    BY <2>1, <2>2
<1>15. MarksOk'
  <2>1. main'.pc = "recv" => Met' = {} /\ \A l \in Links : ~ (l < main'.i)
    <3> SUFFICES ASSUME main'.pc = "recv" PROVE Met' = {} /\ \A l \in Links : ~ (l < main'.i)
      OBVIOUS
    <3>1. \A l \in Links : ~ (l < main'.i)
      BY <1>5, LinkFacts
    <3>2. Tests[main.test].recv_links \subseteq Links
      BY TypeFacts, TestFacts, SenderFacts
    <3> QED
      BY <1>2, <1>5, <3>1, <3>2 DEF Met
  <2>2. ~main.failed /\ main.count = 0
    BY <1>1 DEF MarksOk
  <2>3. Cardinality({}) = 0
    BY FS_EmptySet
  <2>4. \A t \in Cases' : t >= main'.test => errors'[t] # "passed"
    BY <1>1, <1>2, <1>5, <1>6 DEF MarksOk
  <2>5. main'.pc = "send" => main'.i < ROUTER_LINK_COUNT
    BY <1>5
  <2> QED
    BY <1>5, <2>1, <2>2, <2>3, <2>4, <2>5 DEF MarksOk
<1> QED
  BY <1>12, <1>13, <1>14, <1>15

\* What a test expects of a link, and what makes it fail.
LEMMA BadMeansUnexpected ==
  ASSUME NEW k, NEW l \in Links, NEW m \in Answered, NEW v \in {"none", "short", "right", "wrong"},
         v = "none" => m.kind = "inactive",
         v = "short" => m.kind = "error",
         v \in {"right", "wrong"} => m.kind = "packet" /\ m.test = k /\ m.value = v
  PROVE  /\ Bad(m, k, l) <=> v # Expected(k)[l]
         /\ ~Bad(m, k, l) => (m.kind = "packet" <=> Expects(k, l))
<1>1. Expected(k)[l] = IF Expects(k, l) THEN "right" ELSE "none"
  BY DEF Expected
<1> QED
  BY <1>1 DEF Bad

\* The main thread hears a link.
LEMMA RecvMarks ==
  ASSUME TypeOK, Prompt, TestingInv, MainRecv, NEW x \in Links, x = main.i
  PROVE  MarksOk'
<1> DEFINE m == Head(from[x])
           k == main.test
           R == Tests[k].recv_links
<1>1. LinkOk(x) /\ MarksOk /\ main.pc = "recv"
  BY DEF TestingInv, Testing, MainRecv
<1>2. /\ UNCHANGED <<env, reply>> /\ Tests' = Tests /\ Cases' = Cases /\ from[x] # <<>>
      /\ errors' = IF Inserted(m, k, x) THEN [errors EXCEPT ![k] = "failed"] ELSE errors
  BY DEF MainRecv, router, Tests, Cases
<1>3. /\ main \in MainState /\ x \in Nat /\ k \in Cases /\ main.count \in Nat
      /\ main.failed \in BOOLEAN
  BY TypeFacts, MainFields, LinkFacts
<1>4. /\ main'.pc = "recv" /\ main'.i = x + 1 /\ main'.test = k
      /\ main'.count = IF m.kind = "packet" /\ Expects(k, x) THEN main.count + 1 ELSE main.count
  BY <1>1, <1>3 DEF MainRecv, MainState
<1>5. main'.failed <=> main.failed \/ Bad(m, k, x)
  BY <1>3 DEF MainRecv, MainState
<1>6. main'.received <=> main.received \/ m.kind = "packet" \/ (m.kind = "error" /\ Expects(k, x))
  BY <1>3, TypeFacts, MainFields DEF MainRecv, MainState
<1>7. Answering(x) /\ m = from[x][1] /\ m \in Answered
  <2>1. Answering(x)
    BY <1>1, <1>2, WhoIsWhere DEF LinkOk, Testing
  <2>2. from[x] \in Seq(Answered) /\ Len(from[x]) = 1
    BY <2>1, TypeFacts DEF Answering
  <2> QED
    BY <2>1, <2>2, OneFacts
<1> HIDE DEF m, R
<1>8. \A t \in Cases' : t >= main'.test => errors'[t] # "passed"
  <2>1. \A t \in Cases : t >= k => errors[t] # "passed"
    BY <1>1 DEF MarksOk
  <2>2. \A t \in Cases : errors'[t] = errors[t] \/ errors'[t] = "failed"
    BY <1>2, <1>3, TypeFacts
  <2> QED
    BY <1>2, <1>4, <2>1, <2>2
<1>9. ASSUME Current # <<>>
      PROVE  /\ main'.failed <=> \E l \in Links : l < x + 1 /\ Current[l] # Expected(k)[l]
             /\ ~main'.failed => main'.count = Cardinality(Met') /\ (Met' # {} => main'.received)
  <2> DEFINE v == Current[x]
  <2>1. v \in {"none", "short", "right", "wrong"}
    <3>1. Current \in [Links -> ReplyValues] /\ ReplyValues \subseteq {"none", "right", "wrong", "short"}
      BY <1>3, <1>9, TypeFacts, TestFacts DEF Current
    <3> QED
      BY <3>1
  <2>2. /\ v = "none" => m.kind = "inactive"
        /\ v = "short" => m.kind = "error"
        /\ v \in {"right", "wrong"} => m.kind = "packet" /\ m.test = k /\ m.value = v
    BY <1>1, <1>7, <1>9 DEF LinkOk, AnswerOk
  <2> HIDE DEF v
  <2>3. /\ Bad(m, k, x) <=> v # Expected(k)[x]
        /\ ~Bad(m, k, x) => (m.kind = "packet" <=> Expects(k, x))
    <3> HIDE DEF k
    <3> QED
      BY <1>7, <2>1, <2>2, BadMeansUnexpected
  <2>4. /\ main.failed <=> \E l \in Links : l < x /\ Current[l] # Expected(k)[l]
        /\ ~main.failed => main.count = Cardinality(Met) /\ (Met # {} => main.received)
    BY <1>1, <1>9 DEF MarksOk
  <2>5. \A l \in Links : l < x + 1 <=> l < x \/ l = x
    BY <1>3, LinkFacts
  <2>6. main'.failed <=> \E l \in Links : l < x + 1 /\ Current[l] # Expected(k)[l]
    BY <1>5, <2>3, <2>4, <2>5 DEF v
  <2>7. /\ Met = {l \in R : l < x} /\ Met' = {l \in R : l < x + 1}
        /\ Cardinality(Met) \in Nat
        /\ Cardinality(Met') = IF x \in R THEN Cardinality(Met) + 1 ELSE Cardinality(Met)
    <3>1. Met = {l \in R : l < x} /\ Met' = {l \in R : l < x + 1}
      BY <1>2, <1>4 DEF Met, R
    <3>2. /\ Cardinality({l \in R : l < x}) \in Nat
          /\ Cardinality({l \in R : l < x + 1}) =
               IF x \in R THEN Cardinality({l \in R : l < x}) + 1 ELSE Cardinality({l \in R : l < x})
      BY <1>3, MetGrows DEF R
    <3> QED
      BY <3>1, <3>2
  <2>8. ASSUME ~main'.failed
        PROVE  main'.count = Cardinality(Met') /\ (Met' # {} => main'.received)
    <3>1. ~main.failed /\ (m.kind = "packet" <=> x \in R)
      BY <1>5, <2>3, <2>8 DEF Expects, R
    <3>2. main'.count = IF x \in R THEN main.count + 1 ELSE main.count
      BY <1>4, <3>1 DEF Expects, R
    <3>3. main'.count = Cardinality(Met')
      BY <2>4, <2>7, <3>1, <3>2
    <3>4. Met' # {} => Met # {} \/ x \in R
      <4>1. R \subseteq Links
        BY <1>3, TypeFacts, TestFacts DEF R
      <4> QED
        BY <2>5, <2>7, <4>1
    <3> QED
      BY <1>6, <2>4, <3>1, <3>3, <3>4
  <2> QED
    BY <2>6, <2>8
<1>10. Current' = Current /\ Expected(k)' = Expected(k) /\ main'.i # 0
  BY <1>2, <1>3, <1>4 DEF Current, Expected, Expects
<1> QED
  BY <1>4, <1>8, <1>9, <1>10 DEF MarksOk

LEMMA RecvOk ==
  ASSUME TypeOK, Prompt, TestingInv, MainRecv, NEW x \in Links, x = main.i
  PROVE  (\A l \in Links : LinkOk(l)') /\ AskedOk' /\ MarksOk'
<1>1. (\A l \in Links : LinkOk(l)) /\ AskedOk /\ main.pc = "recv"
  BY DEF TestingInv, Testing, MainRecv
<1>2. /\ UNCHANGED <<env, reply, link, to, outbox, inbox, stream, at_router>> /\ Tests' = Tests
      /\ from[x] # <<>> /\ from' = [from EXCEPT ![x] = Tail(@)]
  BY DEF MainRecv, router, Tests
<1>3. main'.pc = "recv" /\ main'.i = x + 1 /\ main'.test = main.test
  BY <1>1, TypeFacts DEF MainRecv, MainState
<1>4. /\ Sender' = Sender /\ Current' = Current /\ Sender \in Links
      /\ \A l : Question(l)' = Question(l)
  BY <1>2, <1>3, SenderFacts DEF Sender, Current, Question
<1>5. /\ \A l \in Links : Given(l) /\ Given(l)'
      /\ \A l \in Links \ {x} : Collected(l)' <=> Collected(l)
      /\ Collected(x)' /\ ~Collected(x)
  <2>1. \A l \in Links : l \in Nat
    BY LinkFacts
  <2>2. \A l \in Links \ {x} : Collected(l)' <=> Collected(l)
    BY <1>1, <1>3, <2>1 DEF Collected
  <2>3. Collected(x)' /\ ~Collected(x)
    BY <1>1, <1>3, <2>1 DEF Collected
  <2> QED
    BY <1>1, <1>3, <2>2, <2>3 DEF Given
<1>6. Answering(x) /\ ~Gone(x) /\ ~Asked(x)
  BY <1>1, <1>2, WhoIsWhere DEF LinkOk, Testing
<1>7. from'[x] = <<>> /\ \A l \in Links \ {x} : from'[l] = from[l]
  <2>1. from \in [Links -> Seq(Answered)] /\ Len(from[x]) = 1
    BY <1>6, TypeFacts DEF Answering
  <2>2. Tail(from[x]) = <<>>
    <3>1. from[x] \in Seq(Answered)
      BY <2>1
    <3> QED
      BY <2>1, <3>1, OneFacts
  <2> QED
    BY <1>2, <2>1, <2>2
<1>8. Gone(Sender) => Gone(Sender)'
  BY <1>2, <1>4, <1>6, <1>7 DEF Gone
<1>9. Idle(x)' /\ Heard(x)' /\ ~Answering(x)' /\ Heard(x)
  BY <1>2, <1>5, <1>6, <1>7 DEF Idle, Heard, Answering
<1>10. LinkOk(x)'
  <2>1. HeardOk(x)'
    BY <1>1, <1>2, <1>4, <1>8, <1>9 DEF LinkOk, HeardOk
  <2> QED
    BY <1>5, <1>9, <2>1 DEF LinkOk, PhaseOk, NotLost, AnswerOk
<1>11. ASSUME NEW l \in Links \ {x} PROVE LinkOk(l)'
  <2>0. /\ LinkOk(l) /\ from'[l] = from[l] /\ Given(l) /\ Given(l)'
        /\ (Collected(l)' <=> Collected(l))
    BY <1>1, <1>5, <1>7
  <2>1. /\ Idle(l)' <=> Idle(l)
        /\ Asked(l)' <=> Asked(l)
        /\ Reading(l)' <=> Reading(l)
        /\ Answering(l)' <=> Answering(l)
        /\ Gone(l)' <=> Gone(l)
    BY <1>2, <1>4, <2>0 DEF Idle, Asked, Reading, Answering, Gone
  <2>2. Heard(l)' <=> Heard(l)
    BY <2>0, <2>1 DEF Heard
  <2>3. PhaseOk(l)'
    BY <2>0, <2>1 DEF LinkOk, PhaseOk
  <2>4. HeardOk(l)'
    BY <1>2, <1>4, <1>8, <2>0, <2>2 DEF LinkOk, HeardOk
  <2>5. NotLost(l)'
    BY <1>2, <1>4, <2>0, <2>1, <2>2 DEF LinkOk, NotLost
  <2>6. AnswerOk(l)'
    BY <1>2, <1>3, <1>4, <2>0, <2>1 DEF LinkOk, AnswerOk
  <2> QED
    BY <2>3, <2>4, <2>5, <2>6 DEF LinkOk
<1>12. AskedOk'
  <2>1. Asked(Sender) => Asked(Sender)'
    BY <1>2, <1>4, <1>6, <1>7 DEF Asked
  <2> QED
    BY <1>1, <1>2, <1>4, <1>5, <1>8, <2>1 DEF AskedOk
<1> QED
  BY <1>10, <1>11, <1>12, RecvMarks

\* When all links have been heard, nothing of the test is left anywhere and
\* the router has answered it.
LEMMA JudgeQuiet ==
  ASSUME TypeOK, Prompt, TestingInv, MainJudge
  PROVE  /\ at_router = <<>> /\ Current # <<>>
         /\ \A l \in Links : Idle(l) /\ outbox[l] = <<>> /\ inbox[l] = <<>>
<1>1. (\A l \in Links : LinkOk(l)) /\ main.pc = "recv" /\ main.i = ROUTER_LINK_COUNT
  BY DEF TestingInv, Testing, MainJudge
<1>2. \A l \in Links : Collected(l)
  BY <1>1, LinkFacts DEF Collected
<1>3. ASSUME NEW l \in Links
      PROVE  /\ Idle(l) /\ at_router = <<>> /\ outbox[l] = <<>> /\ inbox[l] = <<>>
             /\ Current # <<>> \/ Gone(Sender)
  BY <1>1, <1>2 DEF LinkOk, PhaseOk, HeardOk, Heard
<1>4. ~Gone(Sender) /\ Sender \in Links
  BY <1>3, SenderFacts DEF Idle, Gone
<1> QED
  BY <1>3, <1>4

LEMMA JudgeFields ==
  ASSUME TypeOK, MainJudge
  PROVE  /\ main.test \in Cases
         /\ \/ main' = Start(main.test + 1) /\ main'.test = main.test + 1 /\ main'.i = 0
               /\ main'.pc = "send" /\ main'.count = 0 /\ main'.failed = FALSE
               /\ main.test + 1 \in Cases
            \/ main'.pc = "report" /\ main'.test = main.test /\ main.test = Len(Tests)
<1>1. /\ main \in MainState /\ main.test \in Nat /\ Len(Tests) \in Nat /\ 1 <= main.test
      /\ main.test <= Len(Tests) /\ main.test \in Cases
  BY TypeFacts, MainFields, TestFacts
<1>2. CASE main.test < Len(Tests)
  <2>1. main.test + 1 \in Cases
    BY <1>1, <1>2 DEF Cases
  <2> QED
    BY <1>1, <1>2, <2>1 DEF MainJudge, Start
<1>3. CASE ~ (main.test < Len(Tests))
  BY <1>1, <1>3 DEF MainJudge, MainState
<1> QED
  BY <1>2, <1>3

\* The verdict is the one the answer deserves.
LEMMA JudgeVerdictDeserved ==
  ASSUME TypeOK, Prompt, TestingInv, MainJudge
  PROVE  /\ errors'[main.test] = "passed" <=> Current = Expected(main.test)
         /\ \A t \in Cases \ {main.test} : errors'[t] = errors[t]
<1> DEFINE k == main.test
           R == Tests[k].recv_links
<1>1. /\ main.pc = "recv" /\ main.i = ROUTER_LINK_COUNT /\ MarksOk /\ errors' = Verdict(k)
  BY DEF TestingInv, Testing, MainJudge
<1>2. k \in Cases /\ errors \in [Cases -> {"none", "passed", "failed"}] /\ k \in Nat
  BY TypeFacts, SenderFacts, TestFacts
<1>3. Current # <<>> /\ Current \in [Links -> ReplyValues]
  BY <1>2, JudgeQuiet, TypeFacts DEF Current
<1>4. /\ main.failed <=> \E l \in Links : l < main.i /\ Current[l] # Expected(k)[l]
      /\ ~main.failed => main.count = Cardinality(Met) /\ (Met # {} => main.received)
      /\ errors[k] # "passed"
  BY <1>1, <1>2, <1>3 DEF MarksOk
<1>5. main.failed <=> Current # Expected(k)
  <2>1. \A l \in Links : l < main.i
    BY <1>1, LinkFacts
  <2>2. Expected(k) = [l \in Links |-> Expected(k)[l]]
    BY DEF Expected
  <2>3. Current = [l \in Links |-> Current[l]]
    BY <1>3
  <2>4. (\A l \in Links : Current[l] = Expected(k)[l]) <=> Current = Expected(k)
    BY <2>2, <2>3
  <2> QED
    BY <1>4, <2>1, <2>4
<1>6. ~main.failed => ~Incomplete(k)
  <2>1. Met = R
    BY <1>1, MetAll
  <2> QED
    BY <1>4, <2>1 DEF Incomplete
<1>7. errors'[k] = "passed" <=> ~main.failed
  <2>1. CASE main.failed
    BY <1>1, <1>2, <1>4, <2>1 DEF Verdict
  <2>2. CASE ~main.failed
    BY <1>1, <1>2, <1>6, <2>2 DEF Verdict
  <2> QED
    BY <2>1, <2>2
<1>8. \A t \in Cases \ {k} : errors'[t] = errors[t]
  BY <1>1, <1>2 DEF Verdict
<1> QED
  BY <1>5, <1>7, <1>8

LEMMA JudgeOk ==
  ASSUME TypeOK, SentInv, OnlyInv, DeservedInv, Prompt, TestingInv, MainJudge
  PROVE  OnlyInv' /\ TestingInv' /\ DeservedInv'
<1>1. /\ at_router = <<>> /\ Current # <<>>
      /\ \A l \in Links : Idle(l) /\ outbox[l] = <<>> /\ inbox[l] = <<>>
  BY JudgeQuiet
<1>2. /\ UNCHANGED <<env, reply, link, to, from, outbox, inbox, stream, at_router>>
      /\ Tests' = Tests /\ Cases' = Cases
      /\ MarksOk /\ main.pc = "recv"
  BY DEF MainJudge, channels, router, Tests, Cases, TestingInv, Testing
<1>3. /\ main.test \in Cases
      /\ \/ main' = Start(main.test + 1) /\ main'.test = main.test + 1 /\ main'.i = 0
            /\ main'.pc = "send" /\ main'.count = 0 /\ main'.failed = FALSE
            /\ main.test + 1 \in Cases
         \/ main'.pc = "report" /\ main'.test = main.test /\ main.test = Len(Tests)
  BY JudgeFields
<1>4. OnlyInv'
  <2>1. \A l \in Links : to'[l] = <<>> /\ outbox'[l] = <<>> /\ inbox'[l] = <<>> /\ stream'[l] # "eof"
    BY <1>1, <1>2 DEF Idle, OnlyInv
  <2>2. at_router' = <<>>
    BY <1>1, <1>2
  <2>3. Len(<<>>) = 0 /\ \A n : n \notin 1 .. Len(<<>>)
    OBVIOUS
  <2>4. \A l \in Links : Len(outbox'[l]) + Len(inbox'[l]) <= 1
    <3>1. \A l \in Links : Len(outbox'[l]) = 0 /\ Len(inbox'[l]) = 0
      BY <2>1, <2>3, Zenon
    <3>2. 0 + 0 <= 1
      OBVIOUS
    <3> QED
      BY <3>1, <3>2, Zenon
  <2> QED
    BY <2>1, <2>2, <2>3, <2>4, Zenon DEF OnlyInv
<1>5. \A t \in Cases : t \in Nat
  BY TypeFacts, TestFacts
<1>6. TestingInv'
  <2> SUFFICES ASSUME main'.pc = "send", main'.test = main.test + 1, main'.i = 0,
                      main'.count = 0, main'.failed = FALSE, main.test + 1 \in Cases
               PROVE  (\A l \in Links : LinkOk(l)') /\ AskedOk' /\ MarksOk'
    BY <1>3 DEF TestingInv, Testing
  <2>1. Current' = <<>>
    <3> DEFINE t == main.test + 1
    <3>1. ~Sent(t)
      BY <1>3, <1>5 DEF Sent
    <3>2. reply[t] = <<>>
      BY <3>1 DEF SentInv
    <3> QED
      BY <1>2, <3>2 DEF Current
  <2>2. ASSUME NEW l \in Links PROVE LinkOk(l)' /\ ~Given(l)'
    <3>1. ~Given(l)' /\ ~Collected(l)'
      BY LinkFacts DEF Given, Collected
    <3>2. Idle(l)' /\ ~Answering(l)' /\ ~Heard(l)'
      BY <1>1, <1>2, <3>1 DEF Idle, Answering, Heard
    <3> QED
      BY <2>1, <3>1, <3>2 DEF LinkOk, PhaseOk, HeardOk, NotLost, AnswerOk
  <2>3. AskedOk'
    <3>1. Sender' \in Links
      BY <1>2, TypeFacts, TestFacts DEF Sender
    <3>2. ~Given(Sender)'
      BY <3>1, LinkFacts DEF Given
    <3> QED
      BY <3>2 DEF AskedOk
  <2>4. MarksOk'
    <3>1. ASSUME NEW t \in Cases, t >= main.test + 1 PROVE errors'[t] # "passed"
      <4>1. t # main.test /\ t >= main.test
        BY <1>3, <1>5, <3>1
      <4>2. errors'[t] = errors[t]
        BY <4>1, JudgeVerdictDeserved
      <4> QED
        BY <1>2, <4>1, <4>2 DEF MarksOk
    <3> QED
      BY <1>2, <3>1, LinkFacts DEF MarksOk
  <2> QED
    BY <2>2, <2>3, <2>4
<1>7. DeservedInv'
  <2>1. ASSUME NEW t \in Cases, t < main'.test \/ main'.pc \in {"report", "finish", "end"}
        PROVE  reply'[t] # <<>> /\ (errors'[t] = "passed" <=> reply'[t] = Expected(t)')
    <3>1. t < main.test \/ t = main.test
      BY <1>3, <1>5, <2>1, TypeFacts, TestFacts
    <3>2. Expected(t)' = Expected(t) /\ reply'[t] = reply[t]
      BY <1>2 DEF Expected, Expects
    <3>3. CASE t = main.test
      BY <1>1, <3>2, <3>3, JudgeVerdictDeserved DEF Current
    <3>4. CASE t < main.test
      <4>1. t # main.test
        BY <1>3, <1>5, <3>4
      <4>2. errors'[t] = errors[t]
        BY <4>1, JudgeVerdictDeserved
      <4> QED
        BY <3>2, <3>4, <4>2 DEF DeservedInv
    <3> QED
      BY <3>1, <3>3, <3>4
  <2> QED
    BY <1>2, <2>1 DEF DeservedInv
<1> QED
  BY <1>4, <1>6, <1>7

\* Only a verdict starts another test.
LEMMA TestStays ==
  ASSUME TypeOK, [Next]_vars, ~MainJudge
  PROVE  main'.test = main.test
<1>1. main \in MainState
  BY TypeFacts
<1>2. CASE MainSend \/ MainFinish \/ MainEnd
  <2>1. PICK next \in {"recv", "end", "cleanup"} : Proceed(next)
    BY <1>2 DEF MainSend, MainFinish, MainEnd
  <2> QED
    BY <2>1, ProceedFields
<1>3. CASE MainRecv \/ MainReport \/ MainAbort \/ MainDone
  BY <1>1, <1>3 DEF MainRecv, MainReport, MainAbort, MainDone, MainState
<1>4. ASSUME NEW l \in Links, MainJoin(l) PROVE main' = main
  BY <1>4 DEF MainJoin
<1>5. CASE Network
  BY <1>5 DEF Network, RouterReply, Arrive
<1>6. ASSUME NEW l \in Links, Link(l) \/ Break(l) PROVE main' = main
  BY <1>6 DEF Link, LinkTake, LinkRead, LinkTimeout, LinkEof, LinkReset, Break
<1>7. CASE UNCHANGED vars
  BY <1>7 DEF vars
<1> QED
  BY <1>2, <1>3, <1>4, <1>5, <1>6, <1>7 DEF Next, Main

LEMMA OnlyOnTheWay ==
  ASSUME TypeOK, OnlyInv, Prompt, [Next]_vars,
         NEW l \in Links, NEW n \in 1 .. Len(to'[l]), to'[l][n].kind = "active"
  PROVE  to'[l][n].test = main.test
<1>1. ASSUME NEW k \in 1 .. Len(to[l]), to'[l][n] = to[l][k]
      PROVE  to'[l][n].test = main.test
  BY <1>1 DEF OnlyInv
<1>2. CASE MainSend \/ MainFinish \/ MainEnd
  <2>1. PICK m \in Message :
          to' = Put(to, main.i, m) /\ (m.kind = "active" => m.test = main.test)
    <3>1. CASE MainSend
      BY <3>1, Messages, TypeFacts, MainFields DEF MainSend
    <3>2. CASE MainFinish
      BY <3>2, Messages, LastPacketType DEF MainFinish
    <3>3. CASE MainEnd
      BY <3>3, Messages DEF MainEnd
    <3> QED
      BY <1>2, <3>1, <3>2, <3>3
  <2>2. to'[l][n] = m \/ (n \in 1 .. Len(to[l]) /\ to'[l][n] = to[l][n])
    BY <2>1, PutMainFacts
  <2> QED
    BY <1>1, <2>1, <2>2
<1>3. ASSUME to' = to PROVE to'[l][n].test = main.test
  BY <1>1, <1>3
<1>4. CASE MainRecv \/ MainJudge \/ MainReport \/ MainAbort \/ MainDone
  BY <1>3, <1>4 DEF MainRecv, MainJudge, MainReport, MainAbort, MainDone, channels
<1>5. ASSUME NEW k \in Links, MainJoin(k) PROVE to'[l][n].test = main.test
  <2> DEFINE e == [kind |-> "end"]
  <2>1. to[l] \in Seq(Message) /\ e \in Message /\ e.kind # "active"
    BY TypeFacts, Messages
  <2>2. to'[l] = Append(to[l], e) \/ to'[l] = to[l]
    BY <1>5 DEF MainJoin
  <2> HIDE DEF e
  <2>3. \/ n \in 1 .. Len(to[l]) /\ to'[l][n] = to[l][n]
        \/ to'[l][n] = e
    BY <2>1, <2>2
  <2> QED
    BY <1>1, <2>1, <2>3
<1>6. ASSUME NEW k \in Links, LinkTake(k) PROVE to'[l][n].test = main.test
  <2>1. to \in [Links -> Seq(Message)] /\ to[k] # <<>> /\ to' = [to EXCEPT ![k] = Tail(@)]
    BY <1>6, TypeFacts DEF LinkTake
  <2>2. /\ \A j \in 1 .. Len(to'[k]) : j + 1 \in 1 .. Len(to[k]) /\ to'[k][j] = to[k][j + 1]
        /\ \A i \in Links \ {k} : to'[i] = to[i]
    BY <2>1, TakeFacts
  <2> QED
    BY <1>1, <2>2
<1>7. CASE Network
  BY <1>3, <1>7 DEF Network, RouterReply, Arrive, channels
<1>8. ASSUME NEW k \in Links,
             LinkRead(k) \/ LinkTimeout(k) \/ LinkEof(k) \/ LinkReset(k) \/ Break(k)
      PROVE  to' = to
  BY <1>8 DEF LinkRead, LinkTimeout, LinkEof, LinkReset, Break, channels
<1>9. CASE UNCHANGED vars
  BY <1>3, <1>9 DEF vars, channels
<1> QED
  BY <1>2, <1>3, <1>4, <1>5, <1>6, <1>7, <1>8, <1>9 DEF Next, Main, Link

LEMMA OnlyAtTheRouter ==
  ASSUME TypeOK, SentInv, OnlyInv, Prompt, [Next]_vars, NEW n \in 1 .. Len(at_router')
  PROVE  at_router'[n] = main.test
<1>1. ASSUME at_router' = at_router PROVE at_router'[n] = main.test
  BY <1>1 DEF OnlyInv
<1>2. CASE Main
  BY <1>1, <1>2 DEF Main, MainSend, MainRecv, MainJudge, MainReport, MainFinish, MainEnd,
                    MainAbort, MainJoin, MainDone, router
<1>3. ASSUME NEW k \in Links, LinkTake(k) PROVE at_router'[n] = main.test
  <2> DEFINE m == Head(to[k])
  <2>1. 1 \in 1 .. Len(to[k]) /\ m = to[k][1] /\ m \in Message
    <3>1. to \in [Links -> Seq(Message)] /\ to[k] # <<>> /\ to' = [to EXCEPT ![k] = Tail(@)]
      BY <1>3, TypeFacts DEF LinkTake
    <3> QED
      BY <3>1, TakeFacts
  <2>2. \/ at_router' = at_router
        \/ m.kind = "active" /\ at_router' = Append(at_router, m.test)
    BY <1>3 DEF LinkTake
  <2> HIDE DEF m
  <2>3. m.kind = "active" => m.test = main.test /\ main.test \in Cases
    BY <2>1, SenderFacts DEF OnlyInv
  <2>4. at_router \in Seq(Cases)
    BY TypeFacts
  <2>5. CASE m.kind = "active" /\ at_router' = Append(at_router, main.test)
    <3>1. \/ n \in 1 .. Len(at_router) /\ at_router'[n] = at_router[n]
          \/ at_router'[n] = main.test
      BY <2>3, <2>4, <2>5, AppendProperties
    <3> QED
      BY <3>1 DEF OnlyInv
  <2> QED
    BY <1>1, <2>2, <2>3, <2>5
<1>4. CASE RouterReply
  <2>1. at_router' = <<>>
    BY <1>4, ReplyFacts DEF RouterReply
  <2> QED
    BY <2>1
<1>5. ASSUME NEW k \in Links,
             \/ LinkRead(k) \/ LinkTimeout(k) \/ LinkEof(k) \/ LinkReset(k)
             \/ Arrive(k) \/ Break(k)
      PROVE  at_router' = at_router
  BY <1>5 DEF LinkRead, LinkTimeout, LinkEof, LinkReset, Arrive, Break, router
<1>6. CASE UNCHANGED vars
  BY <1>1, <1>6 DEF vars, router
<1> QED
  BY <1>1, <1>2, <1>3, <1>4, <1>5, <1>6 DEF Next, Network, Link

\* What is in the two boxes of link l, now or after a step: packets of the
\* test in progress, and one at most.
BoxesOk(out, in) ==
  /\ \A n \in 1 .. Len(out) : out[n].test = main.test
  /\ \A n \in 1 .. Len(in) : in[n].test = main.test
  /\ Len(out) + Len(in) <= 1

LEMMA BoxesFacts ==
  /\ BoxesOk(<<>>, <<>>)
  /\ \A p : p.test = main.test => BoxesOk(<<p>>, <<>>) /\ BoxesOk(<<>>, <<p>>)
<1>1. /\ Len(<<>>) = 0 /\ \A n : n \notin 1 .. Len(<<>>)
      /\ 0 + 0 <= 1 /\ 1 + 0 <= 1 /\ 0 + 1 <= 1
  OBVIOUS
<1>2. \A p : Len(<<p>>) = 1 /\ \A n \in 1 .. Len(<<p>>) : <<p>>[n] = p
  OBVIOUS
<1> QED
  BY <1>1, <1>2, Zenon DEF BoxesOk

\* The boxes hold nothing, or one packet between them.
LEMMA BoxesCases ==
  ASSUME TypeOK, NEW out \in Seq(Packet), NEW in \in Seq(Packet), BoxesOk(out, in)
  PROVE  /\ out # <<>> => in = <<>> /\ Tail(out) = <<>> /\ Head(out) \in Packet /\ Head(out).test = main.test
         /\ in # <<>> => out = <<>>
<1>1. /\ Len(out) \in Nat /\ (out = <<>> <=> Len(out) = 0)
      /\ Len(in) \in Nat /\ (in = <<>> <=> Len(in) = 0)
  BY OneFacts
<1>2. Len(out) + Len(in) <= 1
  BY DEF BoxesOk
<1>3. \A a, b \in Nat : a + b <= 1 => (a # 0 => a = 1 /\ b = 0) /\ (b # 0 => a = 0)
  OBVIOUS
<1>4. (Len(out) # 0 => Len(out) = 1 /\ Len(in) = 0) /\ (Len(in) # 0 => Len(out) = 0)
  BY <1>1, <1>2, <1>3, Zenon
<1>5. ASSUME out # <<>>
      PROVE  in = <<>> /\ Tail(out) = <<>> /\ Head(out) \in Packet /\ Head(out).test = main.test
  <2>1. Len(out) = 1 /\ in = <<>>
    BY <1>1, <1>4, <1>5
  <2>2. Head(out) = out[1] /\ out[1] \in Packet /\ Tail(out) = <<>>
    BY <2>1, OneFacts
  <2>3. out[1].test = main.test
    BY <2>1 DEF BoxesOk
  <2> QED
    BY <2>1, <2>2, <2>3
<1> QED
  BY <1>1, <1>4, <1>5

LEMMA OnlyInTheBoxes ==
  ASSUME TypeOK, SentInv, SaidInv, OnlyInv, Prompt, [Next]_vars, NEW l \in Links
  PROVE  BoxesOk(outbox'[l], inbox'[l])
<1>0. BoxesOk(outbox[l], inbox[l]) /\ outbox[l] \in Seq(Packet) /\ inbox[l] \in Seq(Packet)
  BY TypeFacts DEF OnlyInv, BoxesOk
<1>1. ASSUME outbox'[l] = outbox[l], inbox'[l] = inbox[l] PROVE BoxesOk(outbox'[l], inbox'[l])
  BY <1>0, <1>1
<1>2. CASE Main
  BY <1>1, <1>2 DEF Main, MainSend, MainRecv, MainJudge, MainReport, MainFinish, MainEnd,
                    MainAbort, MainJoin, MainDone, router
<1>3. CASE RouterReply
  <2>1. inbox'[l] = <<>>
    BY <1>3, NothingBack, ReplyFacts DEF RouterReply
  <2>2. \/ outbox'[l] = <<>>
        \/ outbox'[l] = <<[test |-> main.test, value |-> Current'[l]]>>
    BY <1>3, ReplyOutbox
  <2>3. [test |-> main.test, value |-> Current'[l]].test = main.test
    OBVIOUS
  <2> QED
    BY <2>1, <2>2, <2>3, BoxesFacts, Zenon
<1>4. ASSUME NEW x \in Links, Arrive(x) PROVE BoxesOk(outbox'[l], inbox'[l])
  <2>1. CASE l # x
    <3>1. outbox'[l] = outbox[l] /\ inbox'[l] = inbox[l]
      BY <1>4, <2>1, TypeFacts DEF Arrive, Put
    <3> QED
      BY <1>1, <3>1
  <2>2. CASE l = x
    <3> DEFINE p == Head(outbox[x])
    <3>1. /\ inbox[x] = <<>> /\ Tail(outbox[x]) = <<>> /\ p \in Packet /\ p.test = main.test
      BY <1>0, <1>4, <2>2, BoxesCases DEF Arrive
    <3> HIDE DEF p
    <3>2. outbox'[x] = <<>>
      BY <1>4, <3>1, TypeFacts DEF Arrive
    <3>3. Put(inbox, x, p)[x] = <<p>>
      <4>1. inbox \in [Links -> Seq(Packet)]
        BY TypeFacts
      <4> QED
        BY <3>1, <4>1, PutAlone
    <3>4. inbox'[x] = <<p>> \/ inbox'[x] = <<>>
      BY <1>4, <3>1, <3>3 DEF Arrive, p
    <3> QED
      BY <2>2, <3>1, <3>2, <3>4, BoxesFacts, Zenon
  <2> QED
    BY <2>1, <2>2
<1>5. ASSUME NEW x \in Links, LinkRead(x) PROVE BoxesOk(outbox'[l], inbox'[l])
  <2>1. /\ outbox' = outbox /\ inbox' = [inbox EXCEPT ![x] = <<>>] /\ inbox[x] # <<>>
        /\ inbox \in [Links -> Seq(Packet)]
    BY <1>5, TypeFacts DEF LinkRead, router
  <2>2. CASE l # x
    BY <1>1, <2>1, <2>2
  <2>3. CASE l = x
    <3>1. outbox'[l] = <<>> /\ inbox'[l] = <<>>
      BY <1>0, <2>1, <2>3, BoxesCases
    <3> QED
      BY <3>1, BoxesFacts, Zenon
  <2> QED
    BY <2>2, <2>3
<1>6. ASSUME NEW k \in Links,
             LinkTake(k) \/ LinkTimeout(k) \/ LinkEof(k) \/ LinkReset(k) \/ Break(k)
      PROVE  UNCHANGED <<outbox, inbox>>
  BY <1>6 DEF LinkTake, LinkTimeout, LinkEof, LinkReset, Break, router
<1>7. CASE UNCHANGED vars
  BY <1>1, <1>7 DEF vars, router
<1> QED
  BY <1>1, <1>2, <1>3, <1>4, <1>5, <1>6, <1>7 DEF Next, Network, Link

LEMMA NothingEnds ==
  ASSUME TypeOK, OnlyInv, Prompt, [Next]_vars, NEW l \in Links
  PROVE  stream'[l] # "eof"
<1>1. ASSUME stream' = stream PROVE stream'[l] # "eof"
  BY <1>1 DEF OnlyInv
<1>2. ASSUME NEW x \in Links, Break(x) PROVE stream'[l] # "eof"
  <2>1. env.breaks \subseteq {"eof", "reset"} /\ "eof" \notin env.breaks
    BY TypeFacts, SimulationAssumption DEF Prompt, IsEnvironment
  <2>2. stream' = [stream EXCEPT ![x] = "reset"]
    BY <1>2, <2>1 DEF Break
  <2> QED
    BY <2>2, TypeFacts DEF OnlyInv
<1>3. CASE Main
  BY <1>1, <1>3 DEF Main, MainSend, MainRecv, MainJudge, MainReport, MainFinish, MainEnd,
                    MainAbort, MainJoin, MainDone
<1>4. CASE Network
  BY <1>1, <1>4 DEF Network, RouterReply, Arrive
<1>5. ASSUME NEW x \in Links, Link(x) PROVE stream' = stream
  BY <1>5 DEF Link, LinkTake, LinkRead, LinkTimeout, LinkEof, LinkReset
<1>6. CASE UNCHANGED vars
  BY <1>1, <1>6 DEF vars
<1> QED
  BY <1>1, <1>2, <1>3, <1>4, <1>5, <1>6 DEF Next

LEMMA StepOnly ==
  ASSUME TypeOK, SentInv, SaidInv, OnlyInv, [Next]_vars, ~MainJudge
  PROVE  OnlyInv'
<1> SUFFICES ASSUME Prompt' PROVE OnlyInv'
  BY DEF OnlyInv
<1>1. Prompt
  BY EnvStays DEF Prompt
<1>2. main'.test = main.test
  BY TestStays
<1>3. \A l \in Links : stream'[l] # "eof"
  BY <1>1, NothingEnds
<1>4. \A n \in 1 .. Len(at_router') : at_router'[n] = main'.test
  BY <1>1, <1>2, OnlyAtTheRouter
<1>5. \A l \in Links : \A n \in 1 .. Len(to'[l]) :
        to'[l][n].kind = "active" => to'[l][n].test = main'.test
  BY <1>1, <1>2, OnlyOnTheWay
<1>6. ASSUME NEW l \in Links
      PROVE  /\ \A n \in 1 .. Len(outbox'[l]) : outbox'[l][n].test = main'.test
             /\ \A n \in 1 .. Len(inbox'[l]) : inbox'[l][n].test = main'.test
             /\ Len(outbox'[l]) + Len(inbox'[l]) <= 1
  <2>1. BoxesOk(outbox'[l], inbox'[l])
    BY <1>1, OnlyInTheBoxes
  <2> QED
    BY <1>2, <2>1, Zenon DEF BoxesOk
<1>7. Links' = Links
  BY DEF Links
<1> QED
  BY <1>3, <1>4, <1>5, <1>6, <1>7 DEF OnlyInv

LEMMA StepTesting ==
  ASSUME TypeOK, SentInv, SaidInv, OnlyInv, TestingInv, [Next]_vars, ~MainJudge
  PROVE  TestingInv'
<1> SUFFICES ASSUME Prompt', Testing'
             PROVE  (\A l \in Links : LinkOk(l)') /\ AskedOk' /\ MarksOk'
  BY DEF TestingInv, Links
<1>1. Prompt
  BY EnvStays DEF Prompt
<1>2. CASE MainSend
  <2>1. main.i < ROUTER_LINK_COUNT
    BY <1>1, <1>2 DEF MainSend, TestingInv, Testing, MarksOk
  <2>2. PICK x \in Links : x = main.i
    BY <2>1, SenderFacts, LinkFacts
  <2> QED
    BY <1>1, <1>2, <2>2, SendOk
<1>3. CASE MainRecv
  <2>1. PICK x \in Links : x = main.i
    BY <1>3, SenderFacts, LinkFacts DEF MainRecv
  <2> QED
    BY <1>1, <1>3, <2>1, RecvOk
<1>4. CASE MainReport \/ MainFinish \/ MainEnd \/ MainAbort \/ MainDone
  BY <1>4, TypeFacts, ProceedFields
     DEF MainReport, MainFinish, MainEnd, MainAbort, MainDone, MainState, Testing
<1>5. ASSUME NEW l \in Links, MainJoin(l) PROVE FALSE
  BY <1>5 DEF MainJoin, Testing
<1>6. ASSUME UNCHANGED <<env, main, errors, reply>>
      PROVE  MarksOk' /\ Testing /\ (\A l \in Links : LinkOk(l)) /\ AskedOk
  <2>1. Testing
    BY <1>6 DEF Testing
  <2> QED
    BY <1>1, <1>6, <2>1, MarksFrame DEF TestingInv
<1>7. CASE RouterReply
  <2>1. Testing
    BY <1>7 DEF RouterReply, Testing
  <2> QED
    BY <1>1, <1>7, <2>1, ReplyOk
<1>8. ASSUME NEW x \in Links, Link(x) \/ Arrive(x) \/ Break(x)
      PROVE  (\A l \in Links : LinkOk(l)') /\ AskedOk' /\ MarksOk'
  <2>1. UNCHANGED <<env, main, errors, reply>>
    BY <1>8 DEF Link, LinkTake, LinkRead, LinkTimeout, LinkEof, LinkReset, Arrive, Break,
                verdicts, router
  <2>2. MarksOk' /\ Testing
    BY <1>6, <2>1
  <2>3. ~LinkEof(x)
    BY <1>1 DEF LinkEof, OnlyInv
  <2> QED
    BY <1>1, <1>8, <2>2, <2>3, TakeOk, ReadOk, TimeoutOk, ResetOk, ArriveOk, BreakOk DEF Link
<1>9. CASE UNCHANGED vars
  <2>1. /\ UNCHANGED <<env, main, errors, reply, link, to, from, outbox, inbox, stream, at_router>>
    BY <1>9 DEF vars, verdicts, channels, router
  <2>2. MarksOk' /\ (\A l \in Links : LinkOk(l)) /\ AskedOk
    BY <1>6, <2>1
  <2>3. /\ Sender' = Sender /\ Sender \in Links /\ Current' = Current
        /\ (Given(Sender)' <=> Given(Sender)) /\ Question(Sender)' = Question(Sender)
    BY <2>1, SameTest, SenderFacts DEF Current
  <2>4. (Gone(Sender)' <=> Gone(Sender)) /\ (Asked(Sender)' <=> Asked(Sender))
    BY <2>1, <2>3 DEF Gone, Asked
  <2>5. AskedOk'
    BY <2>1, <2>2, <2>3, <2>4 DEF AskedOk
  <2>6. ASSUME NEW l \in Links PROVE LinkOk(l)'
    <3>1. Heard(l) => at_router' = <<>>
      BY <2>1, <2>2 DEF LinkOk, HeardOk
    <3> QED
      BY <2>1, <2>2, <2>4, <3>1, LinkFrame
  <2> QED
    BY <2>2, <2>5, <2>6
<1> QED
  BY <1>2, <1>3, <1>4, <1>5, <1>7, <1>8, <1>9 DEF Next, Main, Network

\* What a test that is over was answered, and its verdict, do not change.
LEMMA StepDeserved ==
  ASSUME TypeOK, SentInv, DeservedInv, [Next]_vars, ~MainJudge
  PROVE  DeservedInv'
<1> DEFINE Ends == {"report", "finish", "end"}
<1> SUFFICES ASSUME Prompt', NEW k \in Cases, k < main'.test \/ main'.pc \in Ends
             PROVE  reply'[k] # <<>> /\ (errors'[k] = "passed" <=> reply'[k] = Expected(k)')
  BY EnvStays DEF DeservedInv, Cases, Tests
<1>1. Prompt /\ Expected(k)' = Expected(k)
  BY EnvStays DEF Prompt, Expected, Expects, Tests
<1>2. main'.test = main.test /\ main.test \in Cases /\ \A t \in Cases : t \in Nat
  BY TestStays, SenderFacts, TestFacts, TypeFacts
<1>3. /\ main'.pc \in Ends => main.pc \in Ends
      /\ errors'[k] = errors[k]
  <2>1. CASE MainSend
    BY <2>1, ProceedFields DEF MainSend, verdicts
  <2>2. CASE MainRecv
    <3>1. main'.pc = "recv"
      BY <2>2, TypeFacts DEF MainRecv, MainState
    <3>2. k # main.test
      BY <1>2, <3>1
    <3>3. errors'[k] = errors[k]
      BY <2>2, <3>2, TypeFacts DEF MainRecv
    <3> QED
      BY <3>1, <3>3
  <2>3. CASE MainReport \/ MainFinish \/ MainEnd \/ MainAbort \/ MainDone
    <3>1. errors' = errors
      BY <2>3 DEF MainReport, MainFinish, MainEnd, MainAbort, MainDone, verdicts
    <3>2. main'.pc \in Ends => main.pc \in Ends
      BY <2>3, TypeFacts, ProceedFields
         DEF MainReport, MainFinish, MainEnd, MainAbort, MainDone, MainState
    <3> QED
      BY <3>1, <3>2
  <2>4. ASSUME NEW l \in Links, MainJoin(l) PROVE UNCHANGED <<main, errors>>
    BY <2>4 DEF MainJoin, verdicts
  <2>5. CASE Network
    BY <2>5 DEF Network, RouterReply, Arrive, verdicts
  <2>6. ASSUME NEW l \in Links, Link(l) \/ Break(l) PROVE UNCHANGED <<main, errors>>
    BY <2>6 DEF Link, LinkTake, LinkRead, LinkTimeout, LinkEof, LinkReset, Break, verdicts
  <2>7. CASE UNCHANGED vars
    BY <2>7 DEF vars, verdicts
  <2> QED
    BY <2>1, <2>2, <2>3, <2>4, <2>5, <2>6, <2>7 DEF Next, Main
<1>4. reply[k] # <<>> /\ (errors[k] = "passed" <=> reply[k] = Expected(k))
  BY <1>1, <1>2, <1>3 DEF DeservedInv
<1>5. reply'[k] = reply[k]
  BY <1>4, StepSent
<1> QED
  BY <1>1, <1>3, <1>4, <1>5

LEMMA InitPrompt == Init => OnlyInv /\ TestingInv /\ DeservedInv
<1> SUFFICES ASSUME Init PROVE OnlyInv /\ TestingInv /\ DeservedInv
  OBVIOUS
<1>0. TypeOK
  BY InitType
<1>1. /\ \A l \in Links : /\ to[l] = <<>> /\ from[l] = <<>> /\ outbox[l] = <<>> /\ inbox[l] = <<>>
                          /\ stream[l] = "open" /\ link[l] = "wait"
      /\ at_router = <<>> /\ \A t \in Cases : reply[t] = <<>> /\ errors[t] = "none"
      /\ main = Start(1)
  BY DEF Init
<1>2. /\ main.pc = "send" /\ main.test = 1 /\ main.i = 0 /\ main.count = 0 /\ main.failed = FALSE
  BY <1>1 DEF Start
<1>3. OnlyInv
  <2>1. Len(<<>>) = 0 /\ 0 + 0 <= 1 /\ \A n : n \notin 1 .. Len(<<>>)
    OBVIOUS
  <2>2. "open" # "eof"
    OBVIOUS
  <2> QED
    BY <1>1, <2>1, <2>2, Zenon DEF OnlyInv
<1>4. TestingInv
  <2>1. ASSUME NEW l \in Links PROVE LinkOk(l)
    <3>1. ~Given(l) /\ ~Collected(l)
      BY <1>2, LinkFacts DEF Given, Collected
    <3>2. Idle(l) /\ ~Answering(l) /\ ~Heard(l)
      BY <1>1, <3>1 DEF Idle, Answering, Heard
    <3>3. Current = <<>>
      BY <1>0, <1>1, SenderFacts DEF Current
    <3> QED
      BY <3>1, <3>2, <3>3 DEF LinkOk, PhaseOk, HeardOk, NotLost, AnswerOk
  <2>2. AskedOk
    <3>1. ~Given(Sender)
      BY <1>0, <1>2, SenderFacts, LinkFacts DEF Given
    <3> QED
      BY <3>1 DEF AskedOk
  <2>3. MarksOk
    BY <1>1, <1>2, LinkFacts DEF MarksOk
  <2> QED
    BY <2>1, <2>2, <2>3 DEF TestingInv
<1>5. DeservedInv
  BY <1>0, <1>2, TypeFacts, TestFacts DEF DeservedInv
<1> QED
  BY <1>3, <1>4, <1>5

\* What a simulation with a router in time keeps up.
PromptInv == OnlyInv /\ TestingInv /\ DeservedInv

LEMMA StepPrompt ==
  ASSUME TypeOK, SentInv, SaidInv, PromptInv, [Next]_vars
  PROVE  PromptInv'
<1>1. CASE MainJudge
  <2>1. CASE Prompt
    BY <1>1, <2>1, JudgeOk DEF PromptInv
  <2>2. CASE ~Prompt
    <3>1. ~Prompt'
      BY <2>2, EnvStays DEF Prompt
    <3> QED
      BY <3>1 DEF PromptInv, OnlyInv, TestingInv, DeservedInv
  <2> QED
    BY <2>1, <2>2
<1>2. CASE ~MainJudge
  BY <1>2, StepOnly, StepTesting, StepDeserved DEF PromptInv
<1> QED
  BY <1>1, <1>2

LEMMA FedAndDeserved ==
  ASSUME TypeOK, SentInv, PromptInv
  PROVE  OneTestAtATime /\ VerdictIsDeserved
<1>1. OneTestAtATime
  <2> SUFFICES ASSUME Prompt PROVE OneTestAtATime
    BY DEF OneTestAtATime
  <2>1. Len(at_router) <= 1
    <3>1. CASE at_router = <<>>
      BY <3>1
    <3>2. CASE at_router # <<>>
      <4>1. OnlyInv
        BY DEF PromptInv
      <4>2. Len(at_router) = 1
        BY <3>2, <4>1, ReplyFacts
      <4> QED
        BY <4>2
    <3> QED
      BY <3>1, <3>2
  <2>2. ASSUME NEW l \in Links
        PROVE  /\ \A n \in DOMAIN outbox[l] : outbox[l][n].test = main.test
               /\ \A n \in DOMAIN inbox[l] : inbox[l][n].test = main.test
    <3>1. outbox[l] \in Seq(Packet) /\ inbox[l] \in Seq(Packet)
      BY TypeFacts
    <3>2. DOMAIN outbox[l] = 1 .. Len(outbox[l]) /\ DOMAIN inbox[l] = 1 .. Len(inbox[l])
      BY <3>1
    <3> QED
      BY <3>2, Zenon DEF PromptInv, OnlyInv
  <2>3. ASSUME main.pc = "send", main.i = 0, NEW l \in Links
        PROVE  link[l] \notin {"read", "ended"} /\ to[l] = <<>> /\ from[l] = <<>>
    <3>1. LinkOk(l) /\ ~Given(l)
      BY <2>3, LinkFacts DEF PromptInv, TestingInv, Testing, Given
    <3> QED
      BY <3>1 DEF LinkOk, PhaseOk, Idle
  <2> QED
    BY <2>1, <2>2, <2>3 DEF OneTestAtATime
<1>2. VerdictIsDeserved
  BY DEF VerdictIsDeserved, PromptInv, DeservedInv
<1> QED
  BY <1>1, <1>2

-----------------------------------------------------------------------------
LEMMA StepType ==
  ASSUME TypeOK, VerdictInv, [Next]_vars
  PROVE  TypeOK'
BY MainType, LinkType, NetworkType, StutterType DEF Next, Network

\* Every variable of a simulation stays within its type, in any environment:
\* the main thread indexes test cases and links that exist, and what it and
\* the link threads send each other is what the other one expects.
THEOREM TypeCorrect == Spec => []TypeOK
<1>1. Init => TypeOK /\ VerdictInv
  BY InitType, InitVerdict
<1>2. TypeOK /\ VerdictInv /\ [Next]_vars => (TypeOK /\ VerdictInv)'
  BY StepType, StepVerdict
<1> QED
  BY <1>1, <1>2, PTL DEF Spec

\* The assertion of simulation_cycle() that there are as many verdicts as
\* tests holds, however a router answers the tests.
THEOREM EveryTestGetsVerdict == Spec => []EveryTestHasVerdict
<1>1. Init => TypeOK /\ VerdictInv
  BY InitType, InitVerdict
<1>2. TypeOK /\ VerdictInv /\ [Next]_vars => (TypeOK /\ VerdictInv)'
  BY StepType, StepVerdict
<1>3. VerdictInv => EveryTestHasVerdict
  BY DEF VerdictInv, EveryTestHasVerdict
<1> QED
  BY <1>1, <1>2, <1>3, PTL DEF Spec

\* All links of a router are told the same, after its verdicts have been
\* sent, and END exactly if it passed every test.
THEOREM LinksToldTruly == Spec => []LinksToldTheVerdict
<1>1. Init => TypeOK /\ VerdictInv /\ ToldInv
  BY InitType, InitVerdict, InitTold
<1>2. TypeOK /\ VerdictInv /\ ToldInv /\ [Next]_vars => (TypeOK /\ VerdictInv /\ ToldInv)'
  BY StepType, StepVerdict, StepTold
<1>3. TypeOK /\ ToldInv => LinksToldTheVerdict
  <2> SUFFICES ASSUME TypeOK, ToldInv, NEW l \in Links, told[l] # "none"
               PROVE  reported /\ (told[l] = "END" <=> \A k \in Cases : errors[k] = "passed")
    BY DEF LinksToldTheVerdict
  <2>1. reported /\ told[l] = LastPacket /\ \A k \in Cases : errors[k] # "none"
    BY DEF ToldInv
  <2>2. \A k \in Cases : errors[k] = "passed" \/ errors[k] = "failed"
    BY <2>1, TypeFacts
  <2> QED
    BY <2>1, <2>2 DEF LastPacket
<1> QED
  BY <1>1, <1>2, <1>3, PTL DEF Spec

\* However late a router answers and whatever connections break, it passes a
\* test that expects packets only if it sent the right ones: an answer to one
\* test, or one that came late, is never taken for the answer to another.
THEOREM PassedMeansAnswered == Spec => []PassedWasAnswered
<1> DEFINE IInv == TypeOK /\ VerdictInv /\ SentInv /\ SaidInv /\ HeardInv
<1>1. Init => IInv
  BY InitType, InitVerdict, InitAnswer
<1>2. IInv /\ [Next]_vars => IInv'
  BY StepType, StepVerdict, StepSent, StepSaid, StepHeard
<1>3. IInv => PassedWasAnswered
  BY DEF HeardInv
<1> QED
  BY <1>1, <1>2, <1>3, PTL DEF Spec

\* A router in time is fed one packet at a time: what it has not answered,
\* and what is on its way back from it, is of the test in progress, and a
\* test starts with every link thread idle.
THEOREM FedOneAtATime == Spec => []OneTestAtATime
<1> DEFINE IInv == TypeOK /\ VerdictInv /\ SentInv /\ SaidInv /\ PromptInv
<1>1. Init => IInv
  BY InitType, InitVerdict, InitAnswer, InitPrompt DEF PromptInv
<1>2. IInv /\ [Next]_vars => IInv'
  BY StepType, StepVerdict, StepSent, StepSaid, StepPrompt
<1>3. IInv => OneTestAtATime
  BY FedAndDeserved
<1> QED
  BY <1>1, <1>2, <1>3, PTL DEF Spec

\* A router in time passes a test exactly if it sent the right packets, and
\* no others, on the right links, whatever connections are reset meanwhile.
THEOREM VerdictDeserved == Spec => []VerdictIsDeserved
<1> DEFINE IInv == TypeOK /\ VerdictInv /\ SentInv /\ SaidInv /\ PromptInv
<1>1. Init => IInv
  BY InitType, InitVerdict, InitAnswer, InitPrompt DEF PromptInv
<1>2. IInv /\ [Next]_vars => IInv'
  BY StepType, StepVerdict, StepSent, StepSaid, StepPrompt
<1>3. IInv => VerdictIsDeserved
  BY FedAndDeserved
<1> QED
  BY <1>1, <1>2, <1>3, PTL DEF Spec

=============================================================================
