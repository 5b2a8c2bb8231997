---------------------------- MODULE MCSimulation ----------------------------
(***************************************************************************)
(* Two links: a forwarded packet, a dropped one and a broadcast.           *)
(***************************************************************************)
EXTENDS SimulationProps

MCTests == << [send_link |-> 0, recv_links |-> {1}],
              [send_link |-> 1, recv_links |-> {}],
              [send_link |-> 0, recv_links |-> {0, 1}] >>

\* A router in time whose connections may be reset, and one that answers
\* late and unreadably and may close its connections.
PromptRouter == [tests |-> MCTests, replies |-> {"none", "right", "wrong"},
                 breaks |-> {"reset"}, prompt |-> TRUE]
SlowRouter   == [tests |-> SubSeq(MCTests, 2, 3), replies |-> {"none", "right", "short"},
                 breaks |-> {"eof"}, prompt |-> FALSE]

MCRouters    == {PromptRouter, SlowRouter}
MCOneRouter  == {[PromptRouter EXCEPT !.tests = SubSeq(@, 2, 3), !.replies = {"none", "right"}]}
=============================================================================
