---------------------------- MODULE SessionProps ----------------------------
(***************************************************************************)
(* What a session of router and application must keep to, and that it ends *)
(* for a prompt pair of programs.                                          *)
(***************************************************************************)
EXTENDS Session

Sizes  == 1 .. MAX_PACKET_SIZE
Packet == [flag : {"none"}, test : Cases, size : Sizes] \cup [flag : Flags, test : {0}, size : Sizes]
            \cup [flag : {"none"} \cup Flags, test : {-1}, size : Sizes]

\* Every variable stays within its type.
TypeOK ==
  /\ main \in [pc : {"connect", "store", "create", "count", "join", "tell", "join_app", "results", "done"},
               link : AllLinks, error : BOOLEAN]
  /\ links_yet_inactive \in 0 .. NETSIM_LINK_COUNT + 1
  /\ link_sockets \subseteq AllLinks
  /\ thread \in [AllLinks -> {"none", "barrier", "read"} \cup Flags]
  /\ router \in {"running", "failed", "ended"}
  /\ app \in {"listen", "loop", "failed"} \cup Flags
  /\ netsim \in [pc : {"accept", "test", "tell", "aborted"}, test : 1 .. Len(Tests) + 1,
                 told : SUBSET Links]
  /\ verdict \in {"none"} \cup Flags
  /\ incoming \in [AllLinks -> Seq(Packet)] /\ to_app \in Seq(Packet)
  /\ closed \subseteq AllLinks /\ answers \subseteq Cases /\ cut \in BOOLEAN
  /\ prompt \in BOOLEAN

\* netsim sends as soon as the last link is connected, and route() may send
\* on any link.  The barrier in link_handler() keeps a thread from doing so
\* before main() has stored every socket.
SocketsReady ==
  \A t \in AllLinks : thread[t] \notin {"none", "barrier"} => link_sockets = AllLinks

\* As long as no recv() has ended within a packet, packets may run together
\* and connections close in any way: a router and an application that end
\* properly do so with netsim's verdict, and in order, the application after
\* all links and the router after the application.  With prompt programs no
\* recv() ever ends within a packet.
VerdictsAgree ==
  /\ ~cut => (app \in Flags => app = verdict /\ \A l \in Links : thread[l] = verdict)
  /\ ~cut => (router = "ended" => app = verdict /\ (main.error <=> verdict = "ERR"))
  /\ prompt => ~cut

\* The application answers what leaves it room for the greeting.
NeedsAnswer(n) == Tests[n].kind = "app" /\ Tests[n].size + Hello <= MAX_PACKET_SIZE

\* With prompt programs, every packet the application has to answer has
\* been answered on its link before netsim sends the next or decides.
AnsweredInTime ==
  [][prompt /\ netsim'.pc # "aborted" /\ netsim' # netsim /\ router = "running" =>
       \A n \in Cases : n < netsim.test /\ NeedsAnswer(n) => n \in answers]_vars

\* With prompt programs both processes end: also if netsim closes a link, and
\* properly, with the results printed, if it does not.
SessionEnds ==
  prompt ~> /\ router # "running" /\ app \notin {"listen", "loop"}
            /\ netsim.pc # "aborted" => router = "ended"
=============================================================================
