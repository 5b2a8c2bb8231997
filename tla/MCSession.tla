----------------------------- MODULE MCSession -----------------------------
(***************************************************************************)
(* Two links, and packets of the sizes in tests.json: two that the         *)
(* application answers, one it drops as too large, which together with the *)
(* first is too much for a buffer, and one that does not reach it.         *)
(***************************************************************************)
EXTENDS SessionProps

MCTests == << [link |-> 0, kind |-> "app", size |-> 19], [link |-> 1, kind |-> "app", size |-> 252],
              [link |-> 1, kind |-> "app", size |-> 26], [link |-> 0, kind |-> "router", size |-> 22] >>
=============================================================================
