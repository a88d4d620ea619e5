SPECIFICATION Spec
CONSTANTS
  Decisions <- MCDecisions
  MaxTransitions = 4
  MaxIterations = 3
  Accidents = {"error", "error in append", "error in write", "kill"}
INVARIANTS TypeOK RecordFollowsJournal ValidIsTheDecision InvalidOnlyAfterHalfAppend
PROPERTIES HistoryIsKept ImplementsLifecycle
