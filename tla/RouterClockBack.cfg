SPECIFICATION Spec
CONSTANTS
  SUBNET_ADDRESS_MAX = 4
  TIMESTAMP_MAX = 3
  ROUTER_LINK_COUNT = 2
  LINK_WEIGHTS <- MCLinkWeights
  NEIGHBOUR_SUBNETS <- MCNeighbours
  ROUTER_ADDR = 12
  APPLICATION_ADDR = 14
  Commands <- MCRaceCommands
  DataPackets <- MCRacePackets
  Breakable = {}
PROPERTY ClockNeverBack
