SPECIFICATION Spec
CONSTANTS
  Unset = Unset
  Asked = Asked
  NoMetric = NoMetric
  Reviewed = {"AC1"}
  Gated = {"AC2"}
  Blocking = {"major"}
  Base = "base"
  Trees = {"base", "fix", "relock"}
  InScope = {"base", "fix", "relock"}
  Prepared = {"base", "fix"}
  Constitution <- PlainConstitution
  Metrics = {}
  Provider = "shared"
  Reviews <- FewReviews
  MaxIterations = 2
  Hazards = {"tamper", "write", "linger"}
INVARIANTS NothingRestsOnAlteredSensors
