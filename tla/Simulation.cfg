SPECIFICATION FairSpec
CONSTANTS
  ROUTER_LINK_COUNT = 2
  Environments <- MCRouters
CHECK_DEADLOCK FALSE
INVARIANTS TypeOK OneTestAtATime VerdictIsDeserved LinksToldTheVerdict PassedWasAnswered EveryTestHasVerdict
PROPERTY SimulationEnds
