SPECIFICATION Spec
CONSTANTS
  Runs = {"r1", "r2", "r3", "r4"}
  Empty = {"r4"}
  Landers = {l1, l2}
  Decision <- MCDecision
  Foreign = "edit"
  Twins = FALSE
  Reapplies = FALSE
INVARIANTS LandedAsMeasured
