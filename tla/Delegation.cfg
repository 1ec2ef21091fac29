\* Three sub-agents ask for two places, with a share of two requests and three
\* calls each; one edit, one interruption.
CONSTANTS
  f1 = f1 f2 = f2
  File = {f1, f2}
  Child = {c1, c2, c3}
  Specs <- MCSpecs
  Wants <- MCWants
  Claims <- MCClaims
  ModelLimit = 2
  ToolLimit = 3
  MaxRuns = 2
  MaxEdits = 1
SPECIFICATION Spec
SYMMETRY Names
CHECK_DEADLOCK FALSE
INVARIANTS DelegatesTwice ShareIsCharged StandingIsCurrent
