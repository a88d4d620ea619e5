SPECIFICATION Spec
CONSTANTS
  Versions = {v1, v2}
  Gone = Gone
  Unset = Unset
  Providers = {"pixi", "mise"}
  MaxIterations = 2
  Hazards = {"operator", "agent", "gate"}
INVARIANTS MeasuredAsFrozen OnlyChangesEndIt
