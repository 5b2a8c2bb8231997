# Verification of the EndSemLab router and its network simulator

The repository is a laboratory exercise in distance-vector routing.  A student
writes a router and an application in C; a simulator in Rust (netsim) plays the
network around the router, sends it test packets and judges its answers.  This
directory holds TLA+ models of the solved version (`src/EndSemLab-main`), their
model-checking configurations and machine-checked proofs about them.

Run a configuration with `tlc -config RouterLockStep.cfg MCRouter` and check
proofs with `tlapm RouterProofs.tla`, both in this directory.

## 1. The system

| component | code (under `EndSemLab-main/`) | state | operations |
|---|---|---|---|
| router | `user/src/router.c`, `include/router_api.h` | `last_timestamp` | `route()` on data and command packets |
| routing table and driver | `user/src/_background/router_driver.c` | `router.dv`, `dv_entry_count`, sockets, `links_yet_inactive` | `router_init`, `dv_get_entry`, `dv_set_entry`, `send_buffer_to_*`, `link_handler`, start, shutdown |
| packet codec (C) | `user/src/packet.c`, `include/packet.h` | none | `packet_serialise`, `packet_deserialise`, checksum |
| packet codec (Rust) | `netsim/src/protocol.rs` | none | the same, and `validate_packets` |
| simulation | `netsim/src/simulation.rs` | verdicts, channels, link threads | `simulation_cycle`, `link_handler`, `cleanup_links`, `validate_links` |
| connections | `netsim/src/main.rs` | table of half-connected routers by IP | accept per link, start of a simulation |
| error stream | `netsim/src/error.rs` | table of result streams by IP | insert, `send_message` |
| test cases | `netsim/src/tests.rs`, `netsim/tests.json` | none (read once) | parse |
| application | `user/src/application.c`, `_background/application_driver.c` | socket | answer with "Hello", return of END/ERR |
| log | `_background/_log.c`, `crypt.c`, `user/log_decode.c` | open file | append an entry, decode |
| offline scripts | `dv-step.py`, `evaluate.py`, `_background/packet_test.c` | local | rounds of distance vector, evaluation, parse tests |

How they interact:

* netsim and the router talk over four TCP connections, one per link, and one
  more for the results; the router and the application over a fifth, local one.
* In the router `main()` starts one thread per link.  Every thread calls
  `route()`, and all of them share the routing table and `last_timestamp`
  **without a lock**.
* In netsim the main thread of a simulation and its link threads exchange
  messages over two unbounded channels per link; all simulations share the
  table of result streams behind a mutex.
* netsim accepts connections with one thread per port.  They share the table of
  half-connected routers behind a mutex and start a simulation for an IP address
  when they have counted enough connections from it; the table of result
  streams is filled by yet another thread.
* Both sides build and parse the same packet format with code of their own.

What is hard in it: the races in the router; the byte arithmetic of costs and
checksums; broadcasts of which a part fails; read timeouts with answers that
come too late; several packets, or a part of one, in one `read()`; the order of verdict, ERR/END
packet and thread exit; threads that wait for each other when one fails; tables
keyed by an IP address that several runs of a router may share; log entries
written in pieces by several threads.  `PROJECT.json` lists these hazards line by
line with the properties that watch them, and says of the others why none does: most
are races between link threads, or routers that share an address, where the code
really goes wrong and the properties are stated for packets one at a time or for
addresses in good use.

## 2. The modules

| module | models | for |
|---|---|---|
| `RouterApi` | addresses, packets as `route()` sees them, link table, initial routing table, cost arithmetic | base of the router modules |
| `Router` | `route()` and the parts of the driver it calls, one thread per link | runs and proofs |
| `RouteTable` | abstract routing table: commands merged atomically, then advertised | refinement |
| `RouterProps` | properties of `Router`, the mapping to `RouteTable` | |
| `RouterProofs` | inductive invariant for racing threads, theorems | TLAPS |
| `LockStepProofs` | invariants for one packet at a time, the refinement of `RouteTable`, theorems | TLAPS |
| `Checksum` | both checksums as functions of the byte sum | used by `Wire` |
| `Wire` | both codecs byte for byte, the application's answer, and the way of a packet netsim - router - application - netsim | runs |
| `WireProofs` | which checksum accepts what, what is read is what was written, inductive invariant of the journey, theorems | TLAPS |
| `Simulation`, `SimulationProps` | one simulation of netsim: main thread, link threads, channels, timeouts | runs |
| `SimulationProofs` | inductive invariants of a simulation, theorems | TLAPS |
| `Connections`, `ConnectionsProps` | how runs of routers come to be simulated: the listeners of netsim, the tables by IP address, `validate_links()` | runs |
| `ConnectionsProofs` | inductive invariants, theorems | TLAPS |
| `DvStep`, `DvStepProps` | `dv-step.py`: rounds of distance vector over a whole network | runs |
| `DvStepProofs` | inductive invariant, theorems | TLAPS |
| `RouterLog` | the binary log, written in pieces by several threads, and its decoder | run |
| `RouterLogProofs` | the decoder reads what was written, inductive invariant, theorem | TLAPS |
| `Session`, `SessionProps` | the router's `main()` and link threads with the application and netsim, from the first `connect()` to the end of all three | runs |
| `SessionProofs` | inductive invariants of a session, theorems | TLAPS |
| `MCRouter`, `MCWire`, `MCSimulation`, `MCSession`, `MCConnections`, `MCDvStep`, `MCRouterLog` | constants of the finite instances | runs |

Some definitions are marked *mutation* in a comment.  They are not used by any
specification: each is a plausible bug in the definition after it, and putting
it in place of that definition makes a named property fail (`mutants` in
`PROJECT.json`).  So every property is known to notice something.

### Router

State: `dv`, `dv_entry_count`, `last_timestamp` are the C variables.  `pc` and
`frame` are a thread's place in `route()` and its locals: the command, the loop
index, the flag `did_table_change`, the entries packed so far, and the value of
`dv_entry_count` a thread has loaded and not yet stored.  `up` and `alive` are
connections and process.  `view` is the last table a neighbour was sent.
`event` tells what the last step did with a packet, and `offered` is a history
variable: the (subnet, cost) pairs of the accepted commands of each link.

Actions: `Receive` is `recv()` returning and `route()` being entered.  Corrupt
and data packets are finished in one step; `Router.tla` explains why that loses
no behaviour.  A command packet goes through `check` (line 56), `stamp` (61),
`compare` (66-70), `count`, `bump`, `valid`, `cost`, `hop` (the stores of
`dv_set_entry()`, in its order), `scan` (81-87) and `send` (93-100), one access
to shared memory per step.  `SendBroken` covers what `send()` does on a broken
connection: the bytes are taken and lost, the call fails and `route()` returns
in the middle of the broadcast, or SIGPIPE ends the process.  `ReadBroken` is
`expect()` on a failed `recv()`, which ends the process.

Costs are bytes and wrap (`NewCost`), `dv_entry_count` too.  A subnet is the
address divided by four; commands may name subnets beyond the table.

There are two specifications.  `Spec` lets packets arrive on any link at any
time, which the program allows.  `LockStepSpec` lets one arrive only when no
call is running, which is how netsim uses it: it sends one packet per test and
waits for the answer or for a timeout of 100 ms.  That assumption is itself a
property of the other side's model, `OneTestAtATime` in `SimulationProps`, and
holds there for a router that answers within the timeout and keeps its
connections open, or loses them by a reset.

ERR and END packets and the startup are in `Session`, the log is in `RouterLog`.
Accesses are sequentially consistent; the C program has data races, whose other
outcomes (torn or cached words) no build of this code with byte-sized fields is
expected to show.  The busy wait at startup relies on the Makefile compiling
without optimisation, where each turn of the loop loads the variable.

### RouteTable and the refinement

`RouteTable` says what the router promises: a command newer than all before is
merged as a whole (each route replaced by the cheapest offer that beats it),
and if anything changed, the table goes to the links one by one, before the
next command is accepted; a broken link is skipped or ends the round, and the links
after it then keep what they were told before.

`ImplementsRouteTable` maps `Router` to it.  The command takes effect when its
timestamp is stored.  From then on `TargetTable` is the table with the store
under way finished and the rest of the entries merged, and `StillToTell` the
links the abstract router still has to serve.  It holds for `FairSpec` and so
for one packet at a time; under `Spec` it does not, as threads that race may
store, and send, the older of two tables last.

### Checksum and Wire

The checksum functions depend on the sum of the bytes only, so `Checksum` has
them as functions of that sum.  `packet.c` adds the carry of the 16-bit sum back
once; `protocol.rs` drops all carries.  `Wire` serialises and parses packets as
byte sequences and follows a packet to the router and back, with the router's
change of TTL or its broadcast in between.  A packet (`IsPacket`) has fields
within the widths the codecs give them and a payload that leaves the length within
its byte; `PacketsAssumption` says that test packets and broadcast tables are of
that kind, the latter because of `BroadcastFits`.

A packet for the application goes on as the bytes that came (`RouterDeliver`),
is parsed again (`AppReceive`), and comes back as a new question to the router
(`AppAnswer`): addresses swapped, sequence number up by one in its 12 bits, ACK,
a fresh TTL, and "Hello " before the payload.  `AppFail` is the end of a question
that is too large, and also what `memmove()` may do to one of 247 to 249 bytes:
it moves as many bytes as the whole packet has, header included, by 6, in a
struct whose payload has room for 252.  So for these sizes the model allows both
the answer and the end of the program.  Reading past the end of a packet
that is shorter than its fields claim is not modelled: the instances send
well-formed packets, with right or deliberately wrong checksums, as the test
cases do.

### Simulation

State: `main` is the program counter of `simulation_cycle()` with its locals,
`errors` the verdicts, `link` the place of each link thread, `to` and `from`
the channels.  The router is the environment: for each test it receives it
answers with any value on any link (`RouterReply`), and its answers arrive one
by one.  A packet is named by its test and by whether the simulator will find
it right, wrong or too short to parse; so the model assumes that packets
expected by different test cases differ.  The variable `env` holds the test
cases and what is assumed of the router and its connections, so that one run
covers several environments: with `prompt` the read timeout does not strike
while an answer is on its way, without it, at any time; connections may come to
an end (`eof`) or be reset.  What is promised to a router in time (`Prompt` in
`SimulationProps`) excludes `eof`: a connection at its end reads as an empty
packet at once, which ends the test while the router may still answer on another
link, and that answer is read in a later test.  A reset ends the simulation.

`LinkRead` returns all that has arrived: two packets in one buffer fail the
checksum, as each sums to 255 modulo 256; that a buffer of 256 bytes may cut the
second is left out.  A packet shorter than a header makes
the length underflow, which panics in a debug build and is an unreadable packet
in a release build; both are allowed.  `MainJoin` follows `cleanup_links()`:
only a thread that panicked makes `join()` fail.

`reported` says that `send_message()` has returned.  When its write fails, the
simulation prints that and goes on (`simulation.rs:245`), so `LinksToldTheVerdict` is
about the order of the two, not about whether the results arrive.  A write on a
connection at its end is taken and lost; one that fails is a reset.

`validate_links()` is in `Connections`.  Not modelled: the failure to create a
thread.

### Session

State: `main`, `links_yet_inactive`, `link_sockets` and `thread` are
`router_driver.c`; `thread` ends as the exit code of a link thread.  `router`
and `app` are the two processes.  `netsim` and `verdict` are what `Simulation`
describes in detail, cut down to one packet per test, the results and the ERR or
END packet on every link.  `incoming` and `to_app` are the bytes on the way to
the router and to the application, as packets.  `answers` and `cut` are history variables.

`main()` connects, stores, creates and counts link by link, in separate steps,
since netsim may send as soon as it has the byte of the last link, which is
before the socket is stored.  A thread waits for the count (`ThreadPass`), then
reads.  `Reads` is `recv()` with a buffer of 255 bytes: it returns any number of the
packets that have arrived, as long as they fit (`WholeReads`), or the buffer is full
within a packet (`CutReads`), and the next `recv()` begins with its rest.  A part of a
packet may carry any flag, as any byte of a payload may lie where the flags are
looked for.  Both programs act on the beginning of what they got alone: what comes
behind it is lost, an END packet included.  The checksum covers all that was
received, so a packet with others behind it, or a part, may be refused (`MayRefuse`)
or not, and a part that is taken for a packet may have a length that makes
`memcpy()` end the process (`MayPass`).  Bytes that were sent arrive in one piece
unless the buffer cuts them; that TCP may also split a packet on its way is left out.
`route()` is here only the way of a packet: to the application, back to the link of
its test, or nowhere.  A test therefore has a kind, for the application or the
router's own business, and a size, which decides whether the application drops it as
too large (`TooLarge`).  What the application moves beyond its struct may end it
(`AppCrash`); tests of 247 to 249 bytes, where that can happen to a packet that came
alone, are excluded (`TooLong`), and `tests.json` has none.

A connection may be closed by netsim in the middle of the tests (`NetsimAbort`);
then `recv()` returns 0 and `expect()` ends the router, and the application
after it.  `send()` on a closed connection loses the bytes or kills the process.

`prompt` says whether packets are read before netsim sends more, which is so when
both programs answer within netsim's timeout.  If not, an END packet may be read
behind another and be lost; then the router ends by `expect()`, or, if it was
the application that lost it, both wait for each other for ever.  And a packet may
be cut, and a byte of its payload be taken for ERR or END; then a thread, the
application or the router may end before netsim has a verdict, or with another one.
Without its condition `~cut`, TLC finds `VerdictsAgree` violated: a slow application
has two packets waiting, of 19 and 252 bytes (tests 9 and 13 of `tests.json`); the
second is cut at 255 bytes, the 16 bytes left of it have an `x` (0x78, with the ERR
bit) where the flags are looked for, and the application returns them and ends while
netsim is still testing (`application_driver.c:53`; the test behind it, for more than
`UINT8_MAX` bytes, cannot fail).  `cut` is the history variable that says whether a `recv()`
has ended within a packet.  So `SessionEnds` and `AnsweredInTime` are stated for
prompt programs, and `VerdictsAgree` for as long as nothing has been cut, which
includes prompt programs, as it also states.  `SocketsReady` holds for all.

### Connections

State: `router` is the place of each run of the router program in `main()`:
connect to the error port (`RouterStart`), connect to a link and send its ID byte
(`RouterConnect`, `RouterIdentify`, link by link), run, end.  `error_backlog` and
`backlog` are connections the kernel holds and netsim has not accepted.
`streams` is the table of `ErrorHandler`, `connections` the `ConnectionTable`,
and `simulations` the simulation threads in the order of their start.  `ids` and
`closed` are what has happened to single connections, `ended` which links got ERR
or END, and `results` which run got the results of which simulation.
`overlapped` is a history variable.

A connection is named by the run that opened it; its port follows from where it
is kept.  Addresses may be shared by runs that follow one another or overlap, as
behind a NAT or when a student starts the program twice.  `Mortal` runs may die at
any point, and their connections stay in netsim's tables.

`LinkAccept` is one turn of the loop of `link_listen_thread()`, which holds the
table's lock from the look-up to the start of the simulation.  A stream that is
replaced is dropped and so closed.  A simulation whose streams are not all there
panics at `main.rs:76` (`Simulation`).  `Validate` waits for ID bytes,
`CycleFails` stands for the test cases when a link has died (`Simulation` has
them in detail), `Report` is `send_message()`, which ends netsim when the address
has no stream, and `Tell` the ERR or END on every link.

`PromptAccept` is an assumption: the test cases take some hundred milliseconds,
and by their end the error thread has accepted all that was to accept.  Without
it, a simulation could overtake the connection on which its results should go;
nothing in the code excludes that but time.

### DvStep

`graph` and `tables` are the dictionaries of the script, functions from node to
neighbour to weight and from node to destination to route.  A `Round` updates all
nodes from the tables as they were at its start.  `update_table()` goes through
the neighbours and takes a route whenever it is strictly better; what is left is
the cheapest offer, and of several the first, which is `Winner` (neighbours are
met in the order in which the graph lists them; the model takes the numbers'
order, and no property depends on it).

### RouterLog

`Pieces` are the `fwrite()` calls of one entry, and each `Write` is one of them,
atomic as the C library locks the stream for a call, but not for an entry.
`buffer` is what `fwrite()` has not given to the file; `Flush` gives all of it, whoever
wrote it.  The program ends properly (`End`), by `exit()`, which flushes (`Exit`),
or is killed and loses the buffer (`Kill`); the next run appends (`Begin`).
`Decoded` is `print_log()` as a function of the bytes; an entry that reaches beyond
the end of the file is an arbitrary one, of which nothing is claimed.  `logged`,
`complete`, `whole` and `split` are history variables: the entries that should be
read back, up to the first one torn by another thread or by a kill, those still
in the buffer, whether none is torn yet, and whether the file ends within an
entry, because a flush by one thread took along a part of another's.

## 3. What is checked

Passing runs:

| run | specification and instance | shows |
|---|---|---|
| `router_lockstep` | `FairSpec`; 4 subnets, 2 links and the application, 24 commands, 5 data packets; connections 0 and 2 may break | `BestOffer`: at rest the table holds exactly the cheapest of the initial route and all accepted offers, with the link that made it. `NeighboursInformed`: at every moment the router has each route a neighbour was last told of, at that cost or less, also behind a failed `send()`; at rest a neighbour has exactly the current costs, unless a link up to its own broke or nothing ever changed. `ImplementsRouteTable`. `ChangeReachesNeighbours`: a call that changed the table ends, and has then sent it to all links, unless one broke. `CountMatches`, `ClockNeverBack`, `ForwardedWhereOffered`, `TypeOK`. `BroadcastFits`: a broadcast never has more entries than there are subnets, nor than fit a packet |
| `router_races` | `Spec`; the same sizes, 4 commands, 2 data packets | what survives every interleaving: `SelfRoute`, `OnlyOwnSubnetIsLost`, `RestingRouteWasOffered` |
| `wire_interop` | packets with byte sums around 256 and 511 and beyond, all fields at the ends of their ranges, right and wrong checksums, questions for the application up to its limit | `AcceptedIsSent`: no codec changes a field; `RouterVerdict`: which packets the router accepts; `SmallPacketsArrive`; `AnswerIsExpected`: what leaves after a question is the packet the test cases expect, field by field and with its whole payload; whether netsim accepts its checksum is not asked |
| `simulation` | `FairSpec`; 2 links; a prompt router whose connections may be reset, with 3 tests (forward, drop, broadcast), and a slow one whose connections may close, with 2 tests, late and short packets | `OneTestAtATime` and `VerdictIsDeserved` for prompt routers: a test passes if and only if the right packets and no others came back. For both: `PassedWasAnswered`: a late answer never lets a test pass that was not answered; `EveryTestHasVerdict`: the assertion before the report holds; `LinksToldTheVerdict`; `SimulationEnds` |
| `session` | `FairSpec`; 2 links and the application, 4 tests of 2 kinds and 4 sizes, packets that run together and are cut, a link that closes at any time, prompt and slow programs | `SocketsReady`: the count keeps threads from the sockets until all are stored. `VerdictsAgree`: as long as no `recv()` has ended within a packet, whoever ends properly ends with netsim's verdict and in order; with prompt programs none ever does. For prompt programs, `AnsweredInTime`: every answer is back before the next test, and `SessionEnds`: both processes end, properly unless netsim closed a link |
| `connections` | `FairSpec`; 2 links, 2 addresses, two runs of the router at one of them, the first of which may die, one at the other | `NetsimStaysUp`: no simulation ends netsim for want of a stream. At an address whose runs neither die nor overlap: `WholeSimulations`: a simulation has all links of one run; `ResultsReachTheirRouter`: its results go to that run, although an earlier one left its stream; `ClosedAfterTheEnd`: none of its links is dropped before ERR or END; `RoutersAreServed`: a run that has started ends, whatever happens at other addresses |
| `dv_step` | all networks of 4 nodes with weights 1, 2 and 5, and the script's own with 8 | `NextHopIsNearer`: even while all nodes change at once, next hops never form a circle; `ShortestAtTheEnd`: the final tables are the shortest distances, computed in another way; `FewRounds`: no more rounds than nodes |
| `router_log` | 2 threads of which one or both log, 3 entries of 4 kinds, 2 runs of the program | `ReadsBack`: whatever was logged before the first torn entry is read back, and a program with one logging thread never tears one, even when killed |

Runs that are expected to fail, each a disagreement between the code and what
its comments promise (`findings` in `PROJECT.json`):

| run | counterexample |
|---|---|
| `router_clock_back` | two threads pass the timestamp test together, and the older command is stored last |
| `wire_router_accepts_netsim` | the router refuses a packet of the simulator whose bytes sum to 256 or more |
| `simulation_cleanup` | after a connection error of one link thread `cleanup_links()` waits for the others forever |
| `connections_restart` | a router dies between two links and is run again: link 0 is counted twice, the simulation starts without link 1 and panics, and the link that comes next is counted for a simulation of its own |

Smaller divergences met while reading, which the models reproduce and the
properties above are stated around: `cost + link weight` wraps in a byte
(`router.c:69`), so that a cost of 254 or more behind a link becomes the
cheapest route of all (`NewCost`; `BestOffer` compares the wrapped costs); a
command with the timestamp of the last one is dropped (`router.c:56`), where
`common.h:22` only asks for earlier ones, and a first command with timestamp 0
always is (`Accept` in `RouteTable` demands both); an entry for a subnet beyond
the table makes the router advertise an unchanged table (`router.c:70`, `Accept`
in `RouteTable`); two racing threads may leave the cost of one offer with the
next hop of another (`router_driver.c:155`), so that under `Spec` only the
weaker `RestingRouteWasOffered` holds, and `BestOffer` only one packet at a
time; for the same reason a data packet may meet an entry between the stores of
`is_valid` and `next_hop_link` (`router_driver.c:153`) and leave on link 0,
where `router_api.h:29` promises "The link which connects this router to the
next hop", and a thread that packed the table earlier may send it later
(`router.c:93`) and leave a neighbour with outdated costs, and `dv_entry_count`
may miss an entry (`router_driver.c:151`), so that `ForwardedWhereOffered`,
`NeighboursInformed` and `CountMatches` are checked one packet at a time;
`packet_serialise()` writes some packets that `packet_deserialise()` refuses
(theorem `RouterReadsRouter` says exactly which); netsim refuses every answer of
the application, as it refuses all that the router wrote with a byte sum of 256
or more (`NetsimReadsRouter`), which "Hello " alone exceeds; `memmove()` in
`application.c:34` runs past the struct for questions of 247 to 249 bytes; a
question whose source is the application's own address goes back and forth
between router and application until it is too large; entries logged by several
threads at once tear each other, against `log_decode.c:93`, "We assume there are
no partial log entries."

### Bounds

* Two netsim links and the application are enough for two commands to race,
  for a broadcast with a link before and after a broken one, and for a data
  packet from a third thread.  Four subnets give one of each sort: the
  router's own, a neighbour on each link, and one nobody knows at first.
* `TIMESTAMP_MAX` = 3 admits up to three accepted commands in a row; each may
  add, improve, tie, fail to improve, wrap, or name a subnet outside the table.
  In the race runs two timestamps let every pair of commands race.
* The state space is finite because accepted timestamps increase in lock step.
  Under `Spec` it is finite because the commands are few.
* `Wire` has no counters; its packets are chosen so that the byte sum lies on
  both sides of each threshold of the two checksums.
* Questions for the application have 246 to 250 bytes besides short ones, so that
  the answer just fits or just does not.
* Two and three test cases let an answer be late by one test; two links let a
  test expect packets on none, one or all of them.
* Two links in `Session` give a first and a last one for each loop of `main()`;
  four packets let two be read together, by a thread or by the application,
  and an END packet behind either; two of them, of sizes in `tests.json`, exceed a
  buffer together, so that one is cut.
* Two links in `Connections` let a router die with a link missing; two runs at
  one address let the second meet the remains of the first, or run beside it;
  the third, at another address, is there to be disturbed.
* Four nodes let a shortest path have three links, against the weights of a
  shorter one; the script's network has paths of five.
* Three log entries are one more than two threads can have under way; two runs of
  the program put a begin mark behind whatever the first run left.

Deadlock is not checked where the system may stop: after `exit(1)` in
`router_lockstep`, at the end of a simulation and of a session, when all routers
have ended (`connections`), when the script has (`dv_step`), and when `CallMax`
entries and `StartMax` runs are over (`router_log`).

### Fairness

* `FairSpec` of `Router`: weak fairness of each thread's `Work`.  The threads
  are preemptive POSIX threads, hold no locks and never block in `route()`
  except in `send()`, which returns or fails.  Nothing is assumed about packets
  arriving or connections breaking.
* `FairSpec` of `Simulation`: weak fairness of the main thread, of each link
  thread and of the network.  Threads are preemptive, a blocked `read()` returns
  after `LINK_READ_TIMEOUT`, and a `recv()` on a channel returns when there is a
  message or the other end is gone.  Nothing is assumed about breaks.  Fairness
  of the network includes the router's step, which may be to answer nothing.
* `FairSpec` of `Session`: weak fairness of `main()`, each link thread, the
  application and netsim, all processes or threads of their own.  Nothing is
  assumed about `NetsimAbort`.
* `FairSpec` of `Connections`: weak fairness of each run of the router, of each
  listener and of each simulation thread, while netsim is up.  The listeners
  block in `accept()` only, the table's lock is held for one turn of the loop and
  never while waiting.  Nobody has to start or to die.
* `SimulationEnds` excepts a link thread that met an error on its connection;
  `simulation_cleanup` shows why it must.

## 4. What is proved

For every value of the constants that satisfies the assumptions in `RouterApi`
and `Router` (between 1 and 64 subnets, at most 254 links, distinct neighbours
other than the router itself, weights that fit a byte, any sets of commands
and data packets):

| theorem | states |
|---|---|
| `TypeCorrect` | `Spec => []TypeOK` |
| `SelfRouteKept` | `Spec => []SelfRoute`: no command and no race changes the route to the own subnet |
| `NoOtherPacketIsLost` | `Spec => []OnlyOwnSubnetIsLost` |
| `LearntRoutesWereOffered` | `Spec => []RestingRouteWasOffered` |
| `BroadcastAlwaysFits` | `Spec => []BroadcastFits` |
| `ClockMonotone` | `LockStepSpec => ClockNeverBack` |

and, in `LockStepProofs`,

| theorem | states |
|---|---|
| `ForwardsWhereOffered` | `LockStepSpec => []ForwardedWhereOffered` |
| `CountIsRight` | `LockStepSpec => []CountMatches` |
| `TableIsBestOffer` | `LockStepSpec => []BestOffer` |
| `NeighboursAreInformed` | `LockStepSpec => []NeighboursInformed` |
| `RouterImplementsTable` | `LockStepSpec => ImplementsRouteTable` |

The argument is the inductive invariant `IInv` of `RouterProofs`, the
conjunction of

* `TypeOK`;
* `CallInv(t)` for each thread: only netsim links run a command; the loop index
  is in range for the place the thread is at; a thread that is writing has an
  entry for an existing subnet other than the own one, and what its command
  offers has been recorded; while scanning it has packed at most one entry per
  subnet it has passed;
* `RouteInv(s)` for each subnet: the own subnet has its initial route, other
  entries always have a next hop that is a link, and an entry is initial, or
  its next hop offered the subnet, or a thread that is about to store its own
  link is still at work on it;
* `OnlyOwnSubnetIsLost`.

None of the theorems' properties is inductive.  `SelfRoute` needs that a writing
thread never has the own subnet, which holds because it got there by comparing
an offer with cost 0, which no byte beats.  `RestingRouteWasOffered` fails in
the middle of a store, which is what the last case of `RouteInv` is for.
`BroadcastFits` needs the count of entries during the scan, as other threads
add routes meanwhile.  `ClockMonotone` uses `LockInv`: with one packet at a time
only one thread is past `idle`, and one at `stamp` still has a timestamp above
the last one.  One lemma per action shows that it preserves `IInv`.

`LockStepProofs` adds what holds in the middle of a call when no other runs.

* `StepsInv`: the call works on one of the commands, has changed nothing before
  it compares, and the stores of `dv_set_entry()` already done are in the table.
  With it a forwarded packet leaves by a route that was complete, which gives
  `ForwardedWhereOffered`.
* `CountInv`: the count is the number of valid entries, plus the one that is
  counted but not yet valid.  It is a byte and does not wrap, as there are at
  most 64 entries.
* `BestInv`: for each subnet, the table with the store under way finished is an
  offer or the initial route, and no recorded offer is cheaper except those the
  loop has still to come to.  At rest nothing is left to come to, which is
  `BestOffer`.
* `CopyInv` and `ToldInv`: what a call has packed are the costs of the table, the
  links before the loop index have been sent them, and while no call has changed
  anything, every link that works, with those before it, knows the table.
* `PromiseInv`: the table has every route a neighbour was last told of at that cost
  or less, and so has the table with the store under way finished.  The second half
  is what makes it inductive: between the stores an entry has either its old cost
  or the one that beat it (`StoreHalf`).  It does not depend on which links work.
* For the refinement, merging is shown to be taking the entries of a command one
  by one: the comparison of one entry and the three stores leave `TargetTable`
  as it was, the store of the timestamp maps to the abstract `Accept`, each
  `send()` to an abstract send, and everything else to a stutter.  The lemma
  that the cheapest offer exists (`Least`) is what makes the two agree on ties
  and on offers of a subnet that occurs twice.

For every set of packets, tables and wrong checksums (`PacketsAssumption`),
`WireProofs` has

| theorem | states |
|---|---|
| `RoundTrip` | `Decode(PacketBytes(p, c)) = p` for every packet `p` and checksum byte `c` |
| `TypeCorrect` | `Spec => []TypeOK` |
| `AcceptedAsSent` | `Spec => []AcceptedIsSent` |
| `RouterChecksProperly` | `Spec => []RouterVerdict` |
| `SmallPacketsGetThrough` | `Spec => []SmallPacketsArrive` |
| `AnswersAreExpected` | `Spec => []AnswerIsExpected` |

`WireInv` says that the bytes on the way are those of the packet sent, up to the
checksum byte (`OnTheWire`) and with the router's checksum on the way to netsim
(`FromTheRouter`); that what was read is what a deserialiser makes of them (`Read`);
and whose answer is on its way (`Asked`).  The properties follow from lemmas about
the codecs: each field and each byte of the payload is at its place
(`PacketBytesShape`, `HeaderRead`, `DataRead`, `CommandRead`), everything a
deserialiser asks besides the checksum is there (`Deserialised`), and forwarding,
broadcasting and answering make packets of packets (`Forwarded`, `Broadcasted`,
`Answered`).

How large a byte sum gets is an induction over data, for which the library's
theorems cannot be used.  `WireProofs` goes around it: `PartSums` is a function of
the spans of bytes, sums of halves; that it is what its definition says is proved
by building it span width by span width, and that it is bounded (`PartBounds`) and
changes with one byte by as much as that byte (`PartChange`) by looking at a
narrowest span for which it would not be so.

Before that it proves, for every byte sum a packet can have, when each program
accepts what itself and the other one wrote: the router's test is a correct
one's complement check (`CheckIsOnesComplement`); the router accepts its own
packets exactly if the folded sum fits a byte (`RouterReadsRouter`); each
program accepts the other's exactly if the sum is below 256
(`RouterReadsNetsim`, `NetsimReadsRouter`); netsim accepts all of its own
(`NetsimReadsNetsim`).

For every number of netsim links and every sequence of tests of any sizes (but those
of `TooLong`), and with every way of packets running together, of being cut and of
connections closing, `SessionProofs` has

| theorem | states |
|---|---|
| `TypeCorrect` | `Spec => []TypeOK` |
| `SocketsAlwaysReady` | `Spec => []SocketsReady` |
| `VerdictsAlwaysAgree` | `Spec => []VerdictsAgree` |
| `AnswersInTime` | `Spec => AnsweredInTime` (an action property) |

* `SocketsReady` follows from `IInv`: `links_yet_inactive` is the number of links
  `main()` has still to count, the stored sockets are those of the counted links
  and of the one being started, and before the end of the start every thread is at
  the barrier.
* `VerdictsAgree` needs `VInv`, which follows the verdict along its way as long as
  nothing has been cut (`Agreed`): what is on
  the way between netsim and a link thread carries netsim's verdict or no flag
  (`LinksEnd`); `main()` has its error flag exactly if it has joined a link and the
  verdict is ERR (`JoinsSoFar`); nothing flagged is on the way to the application
  before `main()` has joined all links, nor on the way back before the application
  has ended, and `main()` goes on only when that has come back (`AppEnds`).  That
  prompt programs never cut a packet is `PromptInv`: no stream ever has more than one
  packet in it (`FewPackets`), and one fits the buffer.
* `AnsweredInTime` needs `TimeInv`: with prompt programs at most one packet is under
  way until netsim decides, the last test; it is at the router, at the application
  or on its way back, and everything before it is answered (`LastTest`).  A test
  leaves that way only when it is answered or needs no answer, as the link it came
  on is still open (`OpenInv`) and no flagged packet is about (`VInv`).

For every number of links, every sequence of tests and every way a router may
answer them and connections may break, `SimulationProofs` has

| theorem | states |
|---|---|
| `TypeCorrect` | `Spec => []TypeOK` |
| `EveryTestGetsVerdict` | `Spec => []EveryTestHasVerdict` |
| `LinksToldTruly` | `Spec => []LinksToldTheVerdict` |
| `PassedMeansAnswered` | `Spec => []PassedWasAnswered` |
| `FedOneAtATime` | `Spec => []OneTestAtATime` |
| `VerdictDeserved` | `Spec => []VerdictIsDeserved` |

These invariants follow the main thread through a test.

* `VerdictInv`: a test that is over has a verdict.  The case to rule out is a
  test that failed on a link where a missing packet inserts no verdict, and whose
  packets are complete all the same; so the invariant keeps the count of packets
  below the number of expecting links met so far while a test has failed without
  a verdict.
* `ToldInv`: once reported, verdicts stay, so what is on the way to the link
  threads agrees with what other links have been told already.
* `SentInv`: a test is handed to one link thread, reaches the router at most
  once and is answered at most once.  So an answer never changes.
* `SaidInv` and `HeardInv`: a packet anywhere between router and main thread is
  what the router answered to the test it is named by, so while a test has not
  failed, the links met so far have had their right answer.
* `OnlyInv` and `TestingInv`, for routers in time (`Prompt`): all that is under
  way between main, link threads and router is of the test in progress.  Each
  link thread of the test is asked, reads, has answered or has been heard, in
  this order (`PhaseOk`), and reports silence only when the router has nothing
  on the way to it (`NotLost`); so when main has heard every link, nothing is
  left for the next test.  This is `OneTestAtATime`.
* `DeservedInv`: main's marks (packet received, count, failed) are what the
  answers of the links it has met amount to, by `AnswerOk` and `MarksOk`.  Here
  lies the half that `PassedWasAnswered` does not have: a router that sent the
  right packets is never failed.

For every number of links, routers and addresses, with any of the routers
mortal, `ConnectionsProofs` has

| theorem | states |
|---|---|
| `TypeCorrect` | `Spec => []TypeOK`; in particular the count in the table never reaches `ROUTER_LINK_COUNT` |
| `NetsimAlwaysUp` | `Spec => []NetsimStaysUp` |
| `SimulationsAreWhole` | `Spec => []WholeSimulations` |
| `ResultsFindTheirRun` | `Spec => []ResultsReachTheirRouter` |
| `LinksLastToTheEnd` | `Spec => []ClosedAfterTheEnd` |

The invariant `IInv` says that a run that has begun to connect has a stream at
its address, maybe that of an earlier run, or waits at the error port; and that
only such runs are at a link port, in the table or simulated.  With `PromptAccept`
(an assumption, see section 2) a simulation that reports then finds a stream.
It rests on two facts of the code: the router connects to the error port
first, and `streams` never loses an address.

The other three theorems are about addresses in good use (`Good`), whatever
happens at the rest.  `OwnInv` keeps the addresses apart: connections are kept and
simulated under the address of their run.  `GoodInv` says of an address in good
use: at most one run is active (`TurnInv`); each of its connections is in one
place, at the port, in the table or in a simulation, and the count of the table
is the number of links it holds (`PlaceInv`), so that it is full only when it has
every link of that one run (`WholeInv`); that run was the last to connect to the
error port, so its stream is in the table or will be before the report
(`LatestInv`); and no connection is overwritten (`ClosedInv`).  Good use is lost
but never regained, so the step that loses it needs no proof.

For every finite network with positive weights, `DvStepProofs` has

| theorem | states |
|---|---|
| `TypeCorrect` | `Spec => []TypeOK` |
| `RoutesDescend` | `Spec => []NextHopIsNearer` |
| `EndsSettled` | when the script ends, no neighbour offers anything better (Bellman's inequality) |
| `NoRouteIsTooCheap` | no cost is below any lower bound of the distances |
| `EndsInTime` | `Spec => []FewRounds` |
| `EndsShortest` | `Spec => []ShortestAtTheEnd` |

`NextHopIsNearer` is inductive with the types: a round lets costs only fall, and
a route taken now costs what its next hop's route cost a round ago plus the
link.  `IsGraph` is what is assumed of a network: nodes are numbers, there is at
least one (the script prints the table of `MY_NODE`) and finitely many, no node
has a link to itself, and weights are positive.

`EndsInTime` counts by chains (`ChainInv`): who has a better route to offer in
round `k` took it in the round before, from a node that then had one to offer,
and so on down to the destination.  Those are `k + 1` nodes, none of which is
farther from the destination than the next, and the node that is about to take
the route is not among them, as it would have nothing to gain.  So a round that
changes something has more than `k + 1` nodes to find.

`EndsShortest` compares with the walks of `WalksOf()`, which are computed without
any table.  `WalkInv`: in round `k`, every route has a walk of at most `k` links that
costs no more (walks grow at their end and routes at their start; `Prepend` makes
up for it).  `NoneBetter`: at the end no walk is cheaper than the route, as `Settled`
and `NextHopIsNearer` let a route be followed over any link (`Followed`).  With
`FewRounds`, walks with fewer links than there are nodes suffice.

`RouterLogProofs` states `LogReadsBack`, `Spec => []ReadsBack`, for any finite set of
threads, any entries of the six kinds with byte arguments and a size below 256
(`LogAssumption`, which is what the types of the log functions allow) and any
number of runs of the program.  `Code` gives an entry its bytes.  Three groups of
lemmas are about data: an entry whose bytes are in the file is read as that entry
(`ItemRead`: no first byte of an entry starts a mark); `Decoded()` is what its
recursive definition says, as reading always goes forward (`FromExists`); and where
`Reads` follows the bytes of a sequence of entries, `Decoded()` returns them
(`ReadsDecoded`).  The inductive invariant is `LogInv`.  `ThreadsInv`: as long as nothing
is torn, only one thread has begun an entry, and a single writer tears nothing.
`ReadInv`: reading arrives at a position `m` with `logged` and at `q` with `complete`, and
after `q` come exactly the pieces written of the entry under way; that part cannot
be left out, as it is what becomes the next complete entry.

Only model-checked: the liveness properties, as the proof system has no rule for
fairness here.

## 5. Not modelled, and the plan

Left out for good: `crypt.c`, `common.c` and printing (byte transformation and
output), `packet_test.c`, `evaluate.py` and the Makefiles (test vectors and
scripts), the parsing of `tests.json` in `tests.rs` (done once, before anything
else, and a wrong file ends the program), and `src/EndSemLab-question`, the copy
of the user program without the solutions, whose `main()` stops after the parse
tests.  The failure to create a thread or to bind a port ends the programs and is
left out too.

Next: several routers over the merge rule of `RouteTable`, asynchronous, with
`DvStep` as its synchronous form.
