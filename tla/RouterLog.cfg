SPECIFICATION Spec
CONSTANTS
  Threads = {t1, t2}
  Entries <- MCEntries
  CallMax = 3
  StartMax = 2
CHECK_DEADLOCK FALSE
INVARIANT ReadsBack
