SPECIFICATION Spec
CONSTANTS
  Decisions <- MCDecisions
  Artefacts = {"TASK.md"}
  Blocks = {"baseline.0"}
  MaxEdits = 2
INVARIANTS OnePartCannotLie UnseenEdits VerificationAbstracts
