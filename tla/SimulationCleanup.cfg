SPECIFICATION FairSpec
CONSTANTS
  ROUTER_LINK_COUNT = 2
  Environments <- MCOneRouter
CHECK_DEADLOCK FALSE
PROPERTY CleanupEnds
