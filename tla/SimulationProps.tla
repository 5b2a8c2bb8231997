-------------------------- MODULE SimulationProps --------------------------
(***************************************************************************)
(* What the simulation must never do to a router under test, and that it   *)
(* comes to an end.                                                        *)
(***************************************************************************)
EXTENDS Simulation

Message == [kind : {"active"}, test : Cases] \cup [kind : {"inactive", "end"}]
             \cup [kind : {"noresponse"}, packet : {"ERR", "END"}]
Answered == [kind : {"packet"}, test : Cases, value : {"right", "wrong"}]
              \cup [kind : {"error", "inactive"}]
Packet == [test : Cases, value : ReplyValues \ {"none"}]

\* Every variable stays within its type.
TypeOK ==
  /\ env \in Environments
  /\ main \in [pc : {"send", "recv", "report", "finish", "end", "cleanup", "done"},
               test : Cases, i : 0 .. ROUTER_LINK_COUNT, received : BOOLEAN,
               count : 0 .. ROUTER_LINK_COUNT, failed : BOOLEAN]
  /\ errors \in [Cases -> {"none", "passed", "failed"}]
  /\ reported \in BOOLEAN
  /\ joined \subseteq Links
  /\ link \in [Links -> {"wait", "read", "ended", "failed", "panicked"}]
  /\ to \in [Links -> Seq(Message)] /\ from \in [Links -> Seq(Answered)]
  /\ told \in [Links -> {"none", "ERR", "END"}]
  /\ stream \in [Links -> {"open", "eof", "reset"}]
  /\ at_router \in Seq(Cases)
  /\ outbox \in [Links -> Seq(Packet)] /\ inbox \in [Links -> Seq(Packet)]
  /\ reply \in [Cases -> {<<>>} \cup [Links -> ReplyValues]]

\* The router as the tests see it: right packets where they are expected.
Expected(k) == [l \in Links |-> IF Expects(k, l) THEN "right" ELSE "none"]

\* A router that answers in time, on connections that nothing closes.  A
\* reset ends the simulation; a connection at its end does not, but it ends
\* a test that the router may still answer.
Prompt == env.prompt /\ "eof" \notin env.breaks

\* simulation_cycle(): "each link thread is in an idle state" at the start
\* of a cycle, and a prompt router has nothing of an earlier test to send:
\* it is fed one packet at a time.
OneTestAtATime ==
  Prompt =>
  /\ Len(at_router) <= 1
  /\ \A l \in Links :
       /\ \A n \in DOMAIN outbox[l] : outbox[l][n].test = main.test
       /\ \A n \in DOMAIN inbox[l] : inbox[l][n].test = main.test
  /\ main.pc = "send" /\ main.i = 0 =>
       \A l \in Links : link[l] \notin {"read", "ended"} /\ to[l] = <<>> /\ from[l] = <<>>

\* A prompt router gets the verdict it deserves: a test that is over passed
\* exactly if the right packets, and no others, came back on the right
\* links.  A connection that is reset ends the simulation, not the test.
VerdictIsDeserved ==
  Prompt => \A k \in Cases :
    k < main.test \/ main.pc \in {"report", "finish", "end"} =>
      (errors[k] = "passed" <=> reply[k] = Expected(k))

\* However late its answers and whatever breaks, a router only passes a
\* test that expects packets if it sent exactly the right ones there.
PassedWasAnswered ==
  \A k \in Cases :
    errors[k] = "passed" =>
      \A l \in Tests[k].recv_links : reply[k] # <<>> /\ reply[k][l] = "right"

\* assert_eq!(errors.len(), error_info.len()) holds: the four places that
\* insert a verdict for a link and the three that insert one for the test
\* leave no test out.
EveryTestHasVerdict == main.pc = "report" => \A k \in Cases : errors[k] # "none"

\* The router waits for the verdicts when its links have ended, so they are
\* sent, unless that fails, before any link is told; all links are told the
\* same, and END only if every test passed.
LinksToldTheVerdict ==
  \A l \in Links :
    told[l] # "none" =>
      /\ reported
      /\ told[l] = "END" <=> \A k \in Cases : errors[k] = "passed"

\* The simulation of one router ends and joins its threads, whatever the
\* router does and although connections are closed: no thread waits for
\* another forever, unless one of them met an error on its connection.
SimulationEnds == <>(main.pc = "done" \/ \E l \in Links : link[l] = "failed")

\* cleanup_links(): "Some thread error'ed, send exit signal to all other
\* threads."  So the cleanup after the error of one thread ends.
CleanupEnds == main.pc = "cleanup" ~> main.pc = "done"
=============================================================================
