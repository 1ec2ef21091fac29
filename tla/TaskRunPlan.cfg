\* A planned task without verification, interrupted once, under a tool limit that
\* a later invocation raises.
CONSTANTS
  StepId = {s1}
  Version = {v0, v1}
  Budget <- Growing
  Verify = FALSE
  Change = TRUE
  MaxId = 2
  MaxRuns = 2
  MaxEdits = 0
SPECIFICATION Spec
SYMMETRY Contents
CHECK_DEADLOCK FALSE
INVARIANTS ChargedBeforeUsed NoReplay ClosedOnce
