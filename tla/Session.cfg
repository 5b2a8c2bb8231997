SPECIFICATION FairSpec
CONSTANTS
  NETSIM_LINK_COUNT = 2
  Tests <- MCTests
  MayAbort = TRUE
CHECK_DEADLOCK FALSE
INVARIANTS TypeOK SocketsReady VerdictsAgree
PROPERTIES  SessionEnds
