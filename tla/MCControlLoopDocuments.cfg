SPECIFICATION Spec
CONSTANTS
  Unset = Unset
  Asked = Asked
  NoMetric = NoMetric
  Reviewed = {"AC1"}
  Gated = {"AC2"}
  Blocking = {"major"}
  Base = "base"
  Trees = {"base", "fix", "relock"}
  InScope = {"base", "fix", "relock"}
  Prepared = {"base", "fix"}
  Constitution <- DocumentConstitution
  Metrics = {1, 2}
  Provider = "candidate"
  Reviews <- FewReviews
  MaxIterations = 2
  Hazards = {}
INVARIANTS NoRetryOnABrokenControl AcceptedKeepsTheRatchets
PROPERTIES ReachesADecision
