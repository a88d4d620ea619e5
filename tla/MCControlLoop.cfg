SPECIFICATION Spec
CONSTANTS
  Unset = Unset
  Asked = Asked
  NoMetric = NoMetric
  Reviewed = {"AC1"}
  Gated = {"AC2"}
  Blocking = {"major"}
  Base = "base"
  Trees = {"base", "fix", "stray"}
  InScope = {"base", "fix"}
  Prepared = {"base", "fix", "stray"}
  Constitution <- PlainConstitution
  Metrics = {}
  Provider = "none"
  Reviews <- MCReviews
  MaxIterations = 2
  Hazards = {"error", "write", "operator"}
INVARIANTS TypeOK AcceptedWasMeasured LandsWhatWasMeasured TheReviewIsSettledByAPerson FeedbackChain BaselineFirst JournalTellsTheRecord
PROPERTIES Terminates ImplementsLifecycle
