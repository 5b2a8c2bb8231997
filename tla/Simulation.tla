----------------------------- MODULE Simulation -----------------------------
(***************************************************************************)
(* netsim's simulation of the network around one router: a main thread     *)
(* that walks through the test cases and one thread per link that writes   *)
(* the packet of a test to the router and reads the router's answer.  Main *)
(* and link threads talk over two unbounded channels per link.             *)
(*                                                                         *)
(* A packet is named by its test case and by what the simulator will make  *)
(* of it.  The router is the environment: it may answer a test in any way. *)
(*                                                                         *)
(* A definition that a comment calls a mutation is no part of the model:   *)
(* it is a plausible bug in the definition after it, used to show that the *)
(* properties would notice.                                                *)
(***************************************************************************)
EXTENDS Integers, Sequences, FiniteSets

CONSTANTS
  ROUTER_LINK_COUNT,
  Environments   \* the test cases and routers a simulation may run with

Links == 0 .. ROUTER_LINK_COUNT - 1

\* tests: sequence of test cases [send_link, recv_links], {} for None;
\* replies: what the router may send on a link in answer to a test; breaks:
\* how connections may break, at their end or by a reset; prompt: whether
\* the router answers well within LINK_READ_TIMEOUT.
IsEnvironment(e) ==
  /\ e.tests \in Seq([send_link : Links, recv_links : SUBSET Links]) /\ e.tests # <<>>
  /\ e.replies \subseteq {"none", "right", "wrong", "short"}
  /\ e.breaks \subseteq {"eof", "reset"}
  /\ e.prompt \in BOOLEAN

ASSUME SimulationAssumption ==
  /\ ROUTER_LINK_COUNT \in Nat \ {0}
  /\ \A e \in Environments : IsEnvironment(e)

VARIABLES
  env,        \* the environment of this simulation
  main,       \* program counter and locals of simulation_cycle()
  errors,     \* its verdicts; "none" until one is inserted
  reported,   \* whether the verdicts were handed to send_message()
  joined,     \* link threads cleanup_links() has joined
  link,       \* where each link thread is
  to, from,   \* channels: main to link thread and back
  told,       \* the last packet, ERR or END, written on each link
  stream,     \* state of each TCP connection
  at_router,  \* tests the router has received and not yet answered
  outbox,     \* what the router has sent, not yet arrived
  inbox,      \* what has arrived, not yet read
  reply       \* (history) the router's answers, <<>> until it gives one

channels == <<to, from>>
router   == <<at_router, outbox, reply>>
verdicts == <<errors, reported>>
vars     == <<env, main, verdicts, joined, link, channels, told, stream, router, inbox>>

Tests       == env.tests
ReplyValues == env.replies
Cases       == 1 .. Len(Tests)

-----------------------------------------------------------------------------
Start(k) == [pc |-> "send", test |-> k, i |-> 0, received |-> FALSE,
             count |-> 0, failed |-> FALSE]

Init ==
  /\ env \in Environments
  /\ main = Start(1)
  /\ errors = [k \in Cases |-> "none"] /\ reported = FALSE /\ joined = {}
  /\ link = [l \in Links |-> "wait"]
  /\ to = [l \in Links |-> <<>>] /\ from = [l \in Links |-> <<>>]
  /\ told = [l \in Links |-> "none"]
  /\ stream = [l \in Links |-> "open"]
  /\ at_router = <<>> /\ outbox = [l \in Links |-> <<>>]
  /\ inbox = [l \in Links |-> <<>>]
  /\ reply = [k \in Cases |-> <<>>]

Alive(l) == link[l] \in {"wait", "read"}
Put(channel, l, message) == [channel EXCEPT ![l] = Append(@, message)]

\* The next link, or the first one and the next part of the cycle.
Proceed(next) ==
  main' = IF main.i + 1 < ROUTER_LINK_COUNT
            THEN [main EXCEPT !.i = @ + 1] ELSE [main EXCEPT !.i = 0, !.pc = next]

-----------------------------------------------------------------------------
(* simulation_cycle(). *)

\* The link of the test gets its packet, the others are only to listen.
MainSend ==
  /\ main.pc = "send" /\ Alive(main.i)
  /\ to' = Put(to, main.i, IF main.i = Tests[main.test].send_link
                             THEN [kind |-> "active", test |-> main.test]
                             ELSE [kind |-> "inactive"])
  /\ Proceed("recv")
  /\ UNCHANGED <<verdicts, joined, env, link, from, told, stream, router, inbox>>

Expects(k, l) == l \in Tests[k].recv_links

\* Mutations: packets on other links are ignored; packets are not compared.
BadIgnoresStray(m, k, l) ==
  Expects(k, l) /\ (m.kind # "packet" \/ m.test # k \/ m.value # "right")
BadUnvalidated(m, k, l) ==
  IF Expects(k, l) THEN m.kind # "packet" ELSE m.kind # "inactive"

\* What makes a test fail, link by link.
Bad(m, k, l) ==
  IF Expects(k, l)
    THEN m.kind # "packet" \/ m.test # k \/ m.value # "right"
    ELSE m.kind # "inactive"

\* A missing packet is left to the count at the end of the test.
Inserted(m, k, l) == Bad(m, k, l) /\ (m.kind = "inactive" => ~Expects(k, l))

MainRecv ==
  LET l == main.i  k == main.test  m == Head(from[l]) IN
  /\ main.pc = "recv" /\ l < ROUTER_LINK_COUNT /\ from[l] # <<>>
  /\ from' = [from EXCEPT ![l] = Tail(@)]
  /\ main' = [main EXCEPT
       !.i = @ + 1,
       !.received = @ \/ m.kind = "packet" \/ (m.kind = "error" /\ Expects(k, l)),
       !.count = IF m.kind = "packet" /\ Expects(k, l) THEN @ + 1 ELSE @,
       !.failed = @ \/ Bad(m, k, l)]
  /\ errors' = IF Inserted(m, k, l) THEN [errors EXCEPT ![k] = "failed"] ELSE errors
  /\ UNCHANGED <<reported, joined, env, link, to, told, stream, router, inbox>>

\* Mutation: the packets are not counted.
IncompleteNone(k) == Tests[k].recv_links # {} /\ ~main.received

Incomplete(k) ==
  /\ Tests[k].recv_links # {}
  /\ ~main.received \/ main.count # Cardinality(Tests[k].recv_links)

Verdict(k) ==
  CASE Incomplete(k)                 -> [errors EXCEPT ![k] = "failed"]
    [] ~Incomplete(k) /\ ~main.failed -> [errors EXCEPT ![k] = "passed"]
    [] OTHER                         -> errors

\* Mutations: the count of packets is not reset; a test ends with the
\* first packet.
MainJudgeKeeps ==
  LET k == main.test IN
  /\ main.pc = "recv" /\ main.i = ROUTER_LINK_COUNT
  /\ errors' = Verdict(k)
  /\ main' = IF k < Len(Tests) THEN [Start(k + 1) EXCEPT !.count = main.count]
             ELSE [main EXCEPT !.pc = "report"]
  /\ UNCHANGED <<reported, joined, env, link, channels, told, stream, router, inbox>>
MainJudgeEarly ==
  LET k == main.test IN
  /\ main.pc = "recv"
  /\ main.i = ROUTER_LINK_COUNT \/ main.received
  /\ errors' = Verdict(k)
  /\ main' = IF k < Len(Tests) THEN Start(k + 1) ELSE [main EXCEPT !.pc = "report"]
  /\ UNCHANGED <<reported, joined, env, link, channels, told, stream, router, inbox>>

\* All links have reported: the test has its verdict and the next one starts.
MainJudge ==
  LET k == main.test IN
  /\ main.pc = "recv" /\ main.i = ROUTER_LINK_COUNT
  /\ errors' = Verdict(k)
  /\ main' = IF k < Len(Tests) THEN Start(k + 1) ELSE [main EXCEPT !.pc = "report"]
  /\ UNCHANGED <<reported, joined, env, link, channels, told, stream, router, inbox>>

\* Mutation: the message is not sent.
MainReportSilent ==
  /\ main.pc = "report"
  /\ main' = [main EXCEPT !.pc = "finish", !.i = 0]
  /\ UNCHANGED <<verdicts, joined, env, link, channels, told, stream, router, inbox>>

\* assert_eq!(errors.len(), error_info.len()), then the message.  reported
\* says that send_message() has returned: when its write fails, the error is
\* printed and the simulation goes on as if it had not.
MainReport ==
  /\ main.pc = "report" /\ \A k \in Cases : errors[k] # "none"
  /\ reported' = TRUE
  /\ main' = [main EXCEPT !.pc = "finish", !.i = 0]
  /\ UNCHANGED <<errors, joined, env, link, channels, told, stream, router, inbox>>

\* Mutation: the last test decides.
LastPacketOfLast == IF errors[Len(Tests)] = "failed" THEN "ERR" ELSE "END"
LastPacket == IF \E k \in Cases : errors[k] = "failed" THEN "ERR" ELSE "END"

MainFinish ==
  /\ main.pc = "finish" /\ Alive(main.i)
  /\ to' = Put(to, main.i, [kind |-> "noresponse", packet |-> LastPacket])
  /\ Proceed("end")
  /\ UNCHANGED <<verdicts, joined, env, link, from, told, stream, router, inbox>>

MainEnd ==
  /\ main.pc = "end" /\ Alive(main.i)
  /\ to' = Put(to, main.i, [kind |-> "end"])
  /\ Proceed("cleanup")
  /\ UNCHANGED <<verdicts, joined, env, link, from, told, stream, router, inbox>>

\* A channel whose other end is gone: err_return!.
MainAbort ==
  /\ \/ main.pc \in {"send", "finish", "end"} /\ ~Alive(main.i)
     \/ /\ main.pc = "recv" /\ main.i < ROUTER_LINK_COUNT
        /\ ~Alive(main.i) /\ from[main.i] = <<>>
  /\ main' = [main EXCEPT !.pc = "cleanup"]
  /\ UNCHANGED <<verdicts, joined, env, link, channels, told, stream, router, inbox>>

(* cleanup_links(): joins the finished threads in any order.  join() fails *)
(* only for a thread that panicked; then the others are told to end.       *)
MainJoin(l) ==
  /\ main.pc = "cleanup" /\ l \notin joined /\ ~Alive(l)
  /\ joined' = joined \cup {l}
  /\ to' = [k \in Links |->
              IF link[l] = "panicked" /\ k \notin joined' /\ Alive(k)
                THEN Append(to[k], [kind |-> "end"]) ELSE to[k]]
  /\ UNCHANGED <<env, main, verdicts, link, from, told, stream, router, inbox>>

MainDone ==
  /\ main.pc = "cleanup" /\ joined = Links
  /\ main' = [main EXCEPT !.pc = "done"]
  /\ UNCHANGED <<verdicts, joined, env, link, channels, told, stream, router, inbox>>

Main ==
  \/ MainSend \/ MainRecv \/ MainJudge \/ MainReport \/ MainFinish \/ MainEnd
  \/ MainAbort \/ (\E l \in Links : MainJoin(l)) \/ MainDone

-----------------------------------------------------------------------------
(* link_handler(). *)

Move(l, place) == link' = [link EXCEPT ![l] = place]

\* rx.recv() and what follows it up to stream.read() or the next recv().  A
\* write on a connection the router has closed (eof) is taken and lost; one
\* that is refused is a reset, in the environments that have resets.
LinkTake(l) ==
  /\ link[l] = "wait" /\ to[l] # <<>>
  /\ to' = [to EXCEPT ![l] = Tail(@)]
  /\ LET m == Head(to[l]) IN
       \/ /\ m.kind = "active" /\ stream[l] # "reset" /\ Move(l, "read")
          /\ at_router' = IF stream[l] = "open" THEN Append(at_router, m.test) ELSE at_router
          /\ UNCHANGED told
       \/ /\ m.kind = "inactive" /\ Move(l, "read")
          /\ UNCHANGED <<at_router, told>>
       \/ /\ m.kind = "noresponse" /\ stream[l] # "reset"
          /\ told' = [told EXCEPT ![l] = m.packet]
          /\ UNCHANGED <<at_router, link>>
       \/ /\ m.kind = "end" /\ Move(l, "ended")
          /\ UNCHANGED <<at_router, told>>
       \/ /\ m.kind \in {"active", "noresponse"} /\ stream[l] = "reset" /\ Move(l, "failed")
          /\ UNCHANGED <<at_router, told>>
  /\ UNCHANGED <<main, verdicts, joined, env, from, stream, outbox, reply, inbox>>

Answer(l, message) ==
  /\ from' = Put(from, l, message)
  /\ Move(l, "wait")

(* One read() returns everything that has arrived.  Each packet sums to    *)
(* 255 modulo 256, so several of them together have a wrong checksum.  A   *)
(* length byte below the size of the header underflows: a debug build      *)
(* panics, a release build reports the packet as unreadable.  What exceeds  *)
(* the 256 bytes of the buffer, and is left for the next read(), is not    *)
(* modelled: here all that has arrived is read.                            *)
LinkRead(l) ==
  LET p == Head(inbox[l]) IN
  /\ link[l] = "read" /\ inbox[l] # <<>>
  /\ inbox' = [inbox EXCEPT ![l] = <<>>]
  /\ \/ /\ Len(inbox[l]) = 1 /\ p.value # "short"
        /\ Answer(l, [kind |-> "packet", test |-> p.test, value |-> p.value])
     \/ /\ Len(inbox[l]) > 1 \/ p.value = "short"
        /\ Answer(l, [kind |-> "error"])
     \/ /\ Len(inbox[l]) = 1 /\ p.value = "short"
        /\ Move(l, "panicked") /\ UNCHANGED from
  /\ UNCHANGED <<main, verdicts, joined, env, to, told, stream, router>>

\* Nothing of this test is still on its way to the router or back.
Quiet ==
  /\ at_router = <<>>
  /\ \A l \in Links :
       outbox[l] = <<>> /\ \A n \in DOMAIN to[l] : to[l][n].kind # "active"
  /\ main.pc # "send"

LinkTimeout(l) ==
  /\ link[l] = "read" /\ inbox[l] = <<>> /\ stream[l] = "open"
  /\ env.prompt => Quiet
  /\ Answer(l, [kind |-> "inactive"])
  /\ UNCHANGED <<main, verdicts, joined, env, to, told, stream, router, inbox>>

\* Mutation: the end of the connection is not noticed; the thread reads on.
LinkEofUnseen(l) ==
  /\ link[l] = "read" /\ inbox[l] = <<>> /\ stream[l] = "eof"
  /\ UNCHANGED vars

LinkEof(l) ==
  /\ link[l] = "read" /\ inbox[l] = <<>> /\ stream[l] = "eof"
  /\ Answer(l, [kind |-> "error"])
  /\ UNCHANGED <<main, verdicts, joined, env, to, told, stream, router, inbox>>

\* Any other error of read() ends the thread.
LinkReset(l) ==
  /\ link[l] = "read" /\ stream[l] = "reset"
  /\ Move(l, "failed")
  /\ UNCHANGED <<main, verdicts, joined, env, channels, told, stream, router, inbox>>

Link(l) == LinkTake(l) \/ LinkRead(l) \/ LinkTimeout(l) \/ LinkEof(l) \/ LinkReset(l)

-----------------------------------------------------------------------------
(* The router and the network. *)

RouterReply ==
  /\ at_router # <<>>
  /\ at_router' = Tail(at_router)
  /\ \E r \in [Links -> ReplyValues] :
       /\ reply' = [reply EXCEPT ![Head(at_router)] = r]
       /\ outbox' = [l \in Links |->
            IF r[l] = "none" THEN outbox[l]
            ELSE Append(outbox[l], [test |-> Head(at_router), value |-> r[l]])]
  /\ UNCHANGED <<main, verdicts, joined, env, link, channels, told, stream, inbox>>

Arrive(l) ==
  /\ outbox[l] # <<>>
  /\ outbox' = [outbox EXCEPT ![l] = Tail(@)]
  /\ inbox' = IF stream[l] = "open" THEN Put(inbox, l, Head(outbox[l])) ELSE inbox
  /\ UNCHANGED <<main, verdicts, joined, env, link, channels, told, stream, at_router, reply>>

Break(l) ==
  /\ stream[l] # "reset"
  /\ \E b \in env.breaks \ {stream[l]} : stream' = [stream EXCEPT ![l] = b]
  /\ UNCHANGED <<main, verdicts, joined, env, link, channels, told, router, inbox>>

Network == RouterReply \/ \E l \in Links : Arrive(l)

-----------------------------------------------------------------------------
Next ==
  \/ Main \/ Network
  \/ \E l \in Links : Link(l) \/ Break(l)

Spec == Init /\ [][Next]_vars

\* Threads are scheduled, reads time out, and the network delivers.
FairSpec ==
  Spec /\ WF_vars(Main) /\ WF_vars(Network) /\ \A l \in Links : WF_vars(Link(l))
=============================================================================
