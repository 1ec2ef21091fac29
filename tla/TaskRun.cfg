\* A change with a verification command, no plan: one action, one verification,
\* one interruption and one edit by somebody else.
CONSTANTS
  StepId = {}
  Version = {v0, v1}
  Budget <- Plain
  Verify = TRUE
  Change = TRUE
  MaxId = 2
  MaxRuns = 2
  MaxEdits = 1
SPECIFICATION Spec
SYMMETRY Contents
CHECK_DEADLOCK FALSE
INVARIANTS NoEffectForgotten LedgerIsTrue QuietWhileUnknown VerifiedIsCurrent
