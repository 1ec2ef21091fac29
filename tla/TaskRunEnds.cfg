\* One run under fairness of its own steps.
CONSTANTS
  StepId = {s1}
  Version = {v0, v1}
  Budget <- Plain
  Verify = TRUE
  Change = TRUE
  MaxId = 2
  MaxRuns = 1
  MaxEdits = 0
SPECIFICATION FairSpec
CHECK_DEADLOCK FALSE
PROPERTY RunEnds
