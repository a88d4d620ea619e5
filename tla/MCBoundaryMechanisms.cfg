SPECIFICATION BoundarySpec
CONSTANTS
  GateItems <- MCGateItems
  CriterionLines <- MCCriterionLines
  MaxGates = 2
  MaxCriteria = 2
  NoPlace = None
  Places <- MCPlaces
  Within <- MCWithin
  Layouts <- MCLayouts
  Optional <- MCOptional
  Entries <- MCEntries
  PathOf <- MCPathOf
  MaxEntries <- MCMaxEntries
  MaxReports = 2
  None = None
  Models <- MCModels
  Requested <- MCRequested
  Prices <- MCPrices
  Events <- MCEvents
  MaxEvents = 3
  MaxSessions = 3
  Reviewed = {"AC1", "AC2"}
  Gated = {"AC3"}
  Undeclared = {"AC9"}
  Blocking = {"major"}
  Severities = {"major", "minor"}
  MaxItems = 4
INVARIANT OnlyTaskGatesNeedTheEnvironment
