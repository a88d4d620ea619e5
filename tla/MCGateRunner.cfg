SPECIFICATION Spec
CONSTANTS
  NoMetric = NoMetric
  Constitution <- MCConstitution
  Metrics = {}
  Schedule <- MCSchedule
  Reports = {"a"}
  Matched <- MCMatched
  Sizes = {1, 2}
  MaxTime = 1
  Outliving = TRUE
INVARIANTS ResultsAreMeasurements ReadsThisMeasurement
