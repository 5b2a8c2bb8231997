------------------------------ MODULE Session ------------------------------
(***************************************************************************)
(* The two programs of the student from start to end: the router, with its *)
(* main() and one thread per link, and the application.  main() connects   *)
(* to the application and then, link by link, to netsim; a thread waits    *)
(* until all are connected, then hands the packets of its link to route(). *)
(* netsim ends the session with an ERR or END packet on every link, which  *)
(* main() passes on to the application, which returns it.                  *)
(*                                                                         *)
(* A recv() returns what has arrived, up to 255 bytes: one packet, several *)
(* that have run together, or the last of them only in part.  Its rest is  *)
(* then what the next recv() begins with.  Both programs look at the flags *)
(* and the header at the beginning of what they got, and handle it as one  *)
(* packet.  A packet that is sent arrives whole.                           *)
(*                                                                         *)
(* A packet has a flag, ERR, END or none, the number of the test that      *)
(* caused it, and its size.  ERR and END packets have test 0, a part of a  *)
(* packet has test -1 and any flag: the byte that is taken for its flags   *)
(* may be any byte of a payload.                                           *)
(*                                                                         *)
(* A definition that a comment calls a mutation is no part of the model:   *)
(* it is a plausible bug in the definition after it, used to show that the *)
(* properties would notice.                                                *)
(***************************************************************************)
EXTENDS Integers, Sequences

CONSTANTS
  NETSIM_LINK_COUNT,
  Tests,      \* sequence of test packets [link, kind, size]
  MayAbort    \* TRUE if netsim may close a link in the middle

Links    == 0 .. NETSIM_LINK_COUNT - 1
APP_LINK == NETSIM_LINK_COUNT
AllLinks == Links \cup {APP_LINK}
Cases    == 1 .. Len(Tests)
Flags    == {"ERR", "END"}

HEADER_SIZE     == 8
MAX_PACKET_SIZE == 255
PacketSizes     == HEADER_SIZE .. MAX_PACKET_SIZE

\* application() adds 6 bytes and moves the payload within a struct that has
\* room for 252.
Hello       == 6
PayloadRoom == 252
TooLong     == PayloadRoom - Hello + 1 .. MAX_PACKET_SIZE - Hello

\* A packet is for the application ("app"), or the router's business.  No
\* test has a packet that is not too large to answer but overflows the struct.
ASSUME SessionAssumption ==
  /\ NETSIM_LINK_COUNT \in Nat \ {0}
  /\ Tests \in Seq([link : Links, kind : {"app", "router"}, size : PacketSizes \ TooLong])
  /\ MayAbort \in BOOLEAN

VARIABLES
  main,                \* router's main(): where it is, at which link, error flag
  links_yet_inactive,
  link_sockets,        \* links whose socket has been stored
  thread,              \* each link thread; in the end its exit code
  router, app,         \* the two processes
  netsim,              \* what netsim is doing, next test, links told the verdict
  verdict,             \* of netsim; "none" until the results are sent
  incoming,            \* per link, what the router has not yet received
  to_app,              \* what the application has not yet received
  closed,              \* links whose other side has closed the connection
  answers,             \* (history) tests whose answer came back to netsim
  cut,                 \* (history) whether a recv() ended within a packet
  prompt               \* whether packets are read before more are sent

driver == <<main, links_yet_inactive, link_sockets, thread>>
wires  == <<incoming, to_app, closed>>
remote == <<netsim, verdict>>
vars   == <<driver, router, app, remote, wires, answers, cut, prompt>>

Data(n)       == [flag |-> "none", test |-> n, size |-> Tests[n].size]
Final(f)      == [flag |-> f, test |-> 0, size |-> HEADER_SIZE]
Part(f, size) == [flag |-> f, test |-> -1, size |-> size]

-----------------------------------------------------------------------------
\* Mutation: the link of the application is forgotten.
NetsimLinksOnly == NETSIM_LINK_COUNT
InitiallyInactive == NETSIM_LINK_COUNT + 1

Init ==
  /\ main = [pc |-> "connect", link |-> APP_LINK, error |-> FALSE]
  /\ links_yet_inactive = InitiallyInactive
  /\ link_sockets = {}
  /\ thread = [l \in AllLinks |-> "none"]
  /\ router = "running" /\ app = "listen"
  /\ netsim = [pc |-> "accept", test |-> 1, told |-> {}] /\ verdict = "none"
  /\ incoming = [l \in AllLinks |-> <<>>] /\ to_app = <<>> /\ closed = {}
  /\ answers = {} /\ cut = FALSE
  /\ prompt \in BOOLEAN

Running(pc) == router = "running" /\ main.pc = pc
At(pc)      == main' = [main EXCEPT !.pc = pc]

-----------------------------------------------------------------------------
(* The router's main(). *)

\* connect() and the first byte, which the other side waits for.
MainConnect ==
  /\ Running("connect") /\ At("store")
  /\ UNCHANGED <<links_yet_inactive, link_sockets, thread, router, app, remote, wires, answers, cut, prompt>>

\* Links the other side sees.
Connected == link_sockets \cup {l \in AllLinks : main.pc = "store" /\ l = main.link}

MainStore ==
  /\ Running("store") /\ At("create")
  /\ link_sockets' = link_sockets \cup {main.link}
  /\ UNCHANGED <<links_yet_inactive, thread, router, app, remote, wires, answers, cut, prompt>>

MainCreate ==
  /\ Running("create") /\ At("count")
  /\ thread' = [thread EXCEPT ![main.link] = "barrier"]
  /\ UNCHANGED <<links_yet_inactive, link_sockets, router, app, remote, wires, answers, cut, prompt>>

\* The application first, then the links in turn, then the joins.
NextStage ==
  CASE main.link = APP_LINK -> [main EXCEPT !.pc = "connect", !.link = 0]
    [] main.link + 1 \in Links -> [main EXCEPT !.pc = "connect", !.link = @ + 1]
    [] OTHER -> [main EXCEPT !.pc = "join", !.link = 0]

\* Mutation: counted when connected, and again when created.
MainCountTwice ==
  /\ Running("count") /\ main' = NextStage
  /\ links_yet_inactive' = links_yet_inactive - 2
  /\ UNCHANGED <<link_sockets, thread, router, app, remote, wires, answers, cut, prompt>>

MainCount ==
  /\ Running("count") /\ main' = NextStage
  /\ links_yet_inactive' = links_yet_inactive - 1
  /\ UNCHANGED <<link_sockets, thread, router, app, remote, wires, answers, cut, prompt>>

\* Mutation: the last link is not joined.
JoinsLeftShort == main.link + 1 < NETSIM_LINK_COUNT - 1
JoinsLeft      == main.link + 1 < NETSIM_LINK_COUNT

MainJoin ==
  LET error == main.error \/ thread[main.link] = "ERR" IN
  /\ Running("join") /\ thread[main.link] \in Flags
  /\ main' = IF JoinsLeft THEN [main EXCEPT !.link = @ + 1, !.error = error]
                          ELSE [main EXCEPT !.pc = "tell", !.error = error]
  /\ UNCHANGED <<links_yet_inactive, link_sockets, thread, router, app, remote, wires, answers, cut, prompt>>

\* If the application is gone the packet is lost, or send() ends the process.
MainTell ==
  /\ Running("tell")
  /\ \/ /\ At("join_app") /\ UNCHANGED router
        /\ to_app' = Append(to_app, Final(IF main.error THEN "ERR" ELSE "END"))
     \/ APP_LINK \in closed /\ router' = "failed" /\ UNCHANGED <<main, to_app>>
  /\ UNCHANGED <<links_yet_inactive, link_sockets, thread, app, remote,
                 incoming, closed, answers, cut, prompt>>

MainJoinApp ==
  /\ Running("join_app") /\ thread[APP_LINK] \in Flags /\ At("results")
  /\ UNCHANGED <<links_yet_inactive, link_sockets, thread, router, app, remote, wires, answers, cut, prompt>>

\* print_results() waits for the results; then all sockets are closed.
MainResults ==
  /\ Running("results") /\ verdict # "none" /\ At("done")
  /\ router' = "ended"
  /\ UNCHANGED <<links_yet_inactive, link_sockets, thread, app, remote, wires, answers, cut, prompt>>

Main ==
  \/ MainConnect \/ MainStore \/ MainCreate \/ MainCount \/ MainJoin \/ MainTell \/ MainJoinApp
  \/ MainResults

-----------------------------------------------------------------------------
(* recv(sock, buf, MAX_PACKET_SIZE, 0). *)

\* How many bytes the first k packets of a stream have.
BytesTo(stream) ==
  LET sum[k \in 0 .. Len(stream)] == IF k = 0 THEN 0 ELSE sum[k - 1] + stream[k].size IN sum
Bytes(stream) == BytesTo(stream)[Len(stream)]

Taken(stream, k) == SubSeq(stream, 1, k)
After(stream, k) == SubSeq(stream, k + 1, Len(stream))

\* What has arrived, if it is not too much; otherwise the buffer is full
\* within a packet, of which so many bytes are left.
WholeReads(stream) ==
  {[taken |-> Taken(stream, k), rest |-> After(stream, k)] :
     k \in {i \in DOMAIN stream : BytesTo(stream)[i] <= MAX_PACKET_SIZE}}

BytesLeft(stream, k) == BytesTo(stream)[k] - MAX_PACKET_SIZE

CutAt(stream, k, f, g) ==
  [taken |-> Append(Taken(stream, k - 1), Part(f, stream[k].size - BytesLeft(stream, k))),
   rest  |-> <<Part(g, BytesLeft(stream, k))>> \o After(stream, k)]

CutReads(stream) ==
  LET Cut == {k \in DOMAIN stream : BytesLeft(stream, k) \in 1 .. stream[k].size - 1}
  IN  {CutAt(stream, k, f, g) : k \in Cut, f, g \in {"none"} \cup Flags}

Reads(stream) == WholeReads(stream) \cup CutReads(stream)

\* The checksum is over all that recv() returned.  It is right for a packet;
\* for a part, or for packets that ran together, it may be right or not.
MayRefuse(taken) == Len(taken) > 1 \/ Head(taken).test = -1

\* The length in the header is wrong if a part passes for a packet, and a
\* length below that of the header makes memcpy() end the process.
MayPass(taken) == Head(taken).test = -1

-----------------------------------------------------------------------------
(* link_handler(). *)

\* while(links_yet_inactive > 0);
ThreadPass(t) ==
  /\ router = "running" /\ thread[t] = "barrier" /\ links_yet_inactive <= 0
  /\ thread' = [thread EXCEPT ![t] = "read"]
  /\ UNCHANGED <<main, links_yet_inactive, link_sockets, router, app, remote, wires, answers, cut, prompt>>

Reading(t) == router = "running" /\ thread[t] = "read"

ReadFrom(t, read) ==
  /\ Reading(t)
  /\ incoming' = [incoming EXCEPT ![t] = read.rest]
  /\ cut' = (cut \/ read \in CutReads(incoming[t]))

ThreadEnd(t) == \E read \in Reads(incoming[t]) :
  /\ ReadFrom(t, read) /\ Head(read.taken).flag \in Flags
  /\ thread' = [thread EXCEPT ![t] = Head(read.taken).flag]
  /\ UNCHANGED <<main, links_yet_inactive, link_sockets, router, app, remote, to_app, closed, answers, prompt>>

\* send() on a closed connection loses the bytes, or SIGPIPE ends the process.
SendOn(links) == UNCHANGED router \/ (links \cap closed # {} /\ router' = "failed")

\* route() on a packet of netsim: to the application, to links or to nobody.
ThreadRoute(t) == t \in Links /\ \E read \in Reads(incoming[t]) :
  LET p == Head(read.taken) IN
  /\ ReadFrom(t, read) /\ p.flag = "none"
  /\ \/ MayRefuse(read.taken) /\ UNCHANGED <<to_app, router>>
     \/ p.test \in Cases /\ Tests[p.test].kind = "router" /\ SendOn(Links) /\ UNCHANGED to_app
     \/ p.test \in Cases /\ Tests[p.test].kind = "app" /\ SendOn({APP_LINK}) /\ to_app' = Append(to_app, p)
     \/ MayPass(read.taken) /\ SendOn(AllLinks) /\ to_app' = Append(to_app, p)
     \/ MayPass(read.taken) /\ router' = "failed" /\ UNCHANGED to_app
  /\ UNCHANGED <<driver, app, remote, closed, answers, prompt>>

\* route() on what the application sent: to the link the test came on.
ThreadReturn == \E read \in Reads(incoming[APP_LINK]) :
  LET n == Head(read.taken).test IN
  /\ ReadFrom(APP_LINK, read) /\ Head(read.taken).flag = "none"
  /\ \/ MayRefuse(read.taken) /\ UNCHANGED <<answers, router>>
     \/ n \in Cases /\ Tests[n].link \notin closed /\ answers' = answers \cup {n} /\ UNCHANGED router
     \/ n \in Cases /\ Tests[n].link \in closed /\ SendOn({Tests[n].link}) /\ UNCHANGED answers
     \/ MayPass(read.taken) /\ router' = "failed" /\ UNCHANGED answers
  /\ UNCHANGED <<driver, app, remote, to_app, closed, prompt>>

\* recv() returns 0: expect() ends the process.
ThreadEof(t) ==
  /\ Reading(t) /\ incoming[t] = <<>> /\ t \in closed
  /\ router' = "failed"
  /\ UNCHANGED <<driver, app, remote, wires, answers, cut, prompt>>

Thread(t) == ThreadPass(t) \/ ThreadEnd(t) \/ ThreadRoute(t) \/ (t = APP_LINK /\ ThreadReturn) \/ ThreadEof(t)

-----------------------------------------------------------------------------
(* The application. *)

AppAccept ==
  /\ app = "listen" /\ APP_LINK \in Connected
  /\ app' = "loop"
  /\ UNCHANGED <<driver, router, remote, wires, answers, cut, prompt>>

AppRead(read) ==
  /\ app = "loop"
  /\ to_app' = read.rest
  /\ cut' = (cut \/ read \in CutReads(to_app))

\* Mutation: the length is compared the wrong way round.
TooSmall(p) == p.size <= MAX_PACKET_SIZE - Hello
TooLarge(p) == p.size > MAX_PACKET_SIZE - Hello

\* What the router will receive of p, with the greeting in it.
Answered(p) ==
  [incoming EXCEPT ![APP_LINK] = Append(@, [p EXCEPT !.size = @ + Hello])]

\* application() on a packet.
AppAnswer == \E read \in Reads(to_app) :
  LET p == Head(read.taken) IN
  /\ AppRead(read) /\ p.flag = "none"
  /\ \/ (MayRefuse(read.taken) \/ TooLarge(p)) /\ UNCHANGED incoming
     \/ ~TooLarge(p) /\ incoming' = Answered(p)
  /\ UNCHANGED <<driver, router, app, remote, closed, answers, prompt>>

\* memmove() moves as many bytes as were received, and may write beyond the
\* struct; then the process ends, before or after it has answered.
AppCrash == \E read \in Reads(to_app) :
  LET p == Head(read.taken) IN
  /\ AppRead(read) /\ p.flag = "none" /\ ~TooLarge(p)
  /\ Bytes(read.taken) + Hello > PayloadRoom \/ MayPass(read.taken)
  /\ incoming' \in {incoming, Answered(p)}
  /\ app' = "failed" /\ closed' = closed \cup {APP_LINK}
  /\ UNCHANGED <<driver, router, remote, answers, prompt>>

\* Mutation: what was received is not returned.
AppEndSilent == \E read \in Reads(to_app) :
  /\ AppRead(read) /\ Head(read.taken).flag \in Flags
  /\ app' = Head(read.taken).flag /\ closed' = closed \cup {APP_LINK}
  /\ UNCHANGED <<driver, router, remote, incoming, answers, prompt>>

AppEnd == \E read \in Reads(to_app) :
  /\ AppRead(read) /\ Head(read.taken).flag \in Flags
  /\ incoming' = [incoming EXCEPT ![APP_LINK] = @ \o read.taken]
  /\ app' = Head(read.taken).flag /\ closed' = closed \cup {APP_LINK}
  /\ UNCHANGED <<driver, router, remote, answers, prompt>>

\* Once the router is gone recv() returns 0 or fails, or send() fails.
AppEof ==
  /\ app = "loop" /\ router # "running"
  /\ app' = "failed"
  /\ closed' = closed \cup {APP_LINK}
  /\ UNCHANGED <<driver, router, remote, incoming, to_app, answers, cut, prompt>>

App == AppAccept \/ AppAnswer \/ AppCrash \/ AppEnd \/ AppEof

-----------------------------------------------------------------------------
(* netsim, as the module Simulation describes it. *)

Quiet == prompt => to_app = <<>> /\ \A l \in AllLinks : incoming[l] = <<>>

NetsimAccept ==
  /\ netsim.pc = "accept" /\ Links \subseteq Connected
  /\ netsim' = [netsim EXCEPT !.pc = "test"]
  /\ UNCHANGED <<driver, router, app, verdict, wires, answers, cut, prompt>>

NetsimSend ==
  /\ netsim.pc = "test" /\ netsim.test \in Cases /\ Quiet
  /\ netsim' = [netsim EXCEPT !.test = @ + 1]
  /\ incoming' = [incoming EXCEPT ![Tests[netsim.test].link] = Append(@, Data(netsim.test))]
  /\ UNCHANGED <<driver, router, app, verdict, to_app, closed, answers, cut, prompt>>

\* The results go to the error stream before any link hears of them.
NetsimReport ==
  /\ netsim.pc = "test" /\ netsim.test \notin Cases /\ Quiet
  /\ netsim' = [netsim EXCEPT !.pc = "tell"]
  /\ verdict' \in Flags
  /\ UNCHANGED <<driver, router, app, wires, answers, cut, prompt>>

NetsimTell(l) ==
  /\ netsim.pc = "tell" /\ l \notin netsim.told
  /\ netsim' = [netsim EXCEPT !.told = @ \cup {l}]
  /\ incoming' = [incoming EXCEPT ![l] = Append(@, Final(verdict))]
  /\ UNCHANGED <<driver, router, app, verdict, to_app, closed, answers, cut, prompt>>

NetsimClose(l) ==
  /\ l \in netsim.told \ closed
  /\ closed' = closed \cup {l}
  /\ UNCHANGED <<driver, router, app, remote, incoming, to_app, answers, cut, prompt>>

\* A link thread of netsim meets an error; the simulation stops.
NetsimAbort(l) ==
  /\ MayAbort /\ netsim.pc = "test"
  /\ netsim' = [netsim EXCEPT !.pc = "aborted"]
  /\ closed' = closed \cup {l}
  /\ UNCHANGED <<driver, router, app, verdict, incoming, to_app, answers, cut, prompt>>

Netsim ==
  \/ NetsimAccept \/ NetsimSend \/ NetsimReport
  \/ \E l \in Links : NetsimTell(l) \/ NetsimClose(l)

-----------------------------------------------------------------------------
Next ==
  \/ Main \/ App \/ Netsim
  \/ \E t \in AllLinks : Thread(t)
  \/ \E l \in Links : NetsimAbort(l)

Spec == Init /\ [][Next]_vars

\* Processes and threads are scheduled.
FairSpec ==
  /\ Spec /\ WF_vars(Main) /\ WF_vars(App) /\ WF_vars(Netsim)
  /\ \A t \in AllLinks : WF_vars(Thread(t))
=============================================================================
