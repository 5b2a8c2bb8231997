SPECIFICATION Spec
CONSTANTS
  TestPackets <- MCTestPackets
  Tables <- MCTables
  CustomChecksums = {0, 34, 118, 255}
INVARIANTS TypeOK AcceptedIsSent RouterVerdict SmallPacketsArrive AnswerIsExpected
