SPECIFICATION Spec
CONSTANT Graphs <- MCGraphs
CHECK_DEADLOCK FALSE
INVARIANTS TypeOK NextHopIsNearer ShortestAtTheEnd FewRounds
