SPECIFICATION Spec
CONSTANTS
  TestPackets <- MCTestPackets
  Tables <- MCTables
  CustomChecksums = {0, 34, 255}
INVARIANT RouterAcceptsNetsim
