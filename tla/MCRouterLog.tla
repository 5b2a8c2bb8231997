----------------------------- MODULE MCRouterLog -----------------------------
(***************************************************************************)
(* Two threads log up to three entries, of four kinds, in up to two runs   *)
(* of the program; one buffer holds the bytes of both marks.               *)
(***************************************************************************)
EXTENDS RouterLog

MCEntries ==
  { [id |-> LOG_SEND_TO_LINK, args |-> <<2>>, buf |-> MAGIC_BEGIN \o MAGIC_END],
    [id |-> LOG_SEND_TO_APP,  args |-> <<>>,  buf |-> <<4, 1>>],
    [id |-> LOG_DV_SET,       args |-> <<5, 1, 2>>, buf |-> <<>>],
    [id |-> LOG_TEST_NUMBER,  args |-> <<176>>, buf |-> <<>>] }
=============================================================================
