\* One file, one subagent, up to two runs.
CONSTANTS
  f1 = f1 s1 = s1
  Root = root
  Subs = {s1}
  File = {f1}
  Contents <- MCContents
  Tasks <- MCTasks
  MaxRead = 8
  Label = 1
  Again = 1
  MaxFindings = 2
  MaxUnverified = 1
  MaxSource = 8
SPECIFICATION Spec
CHECK_DEADLOCK FALSE
INVARIANTS CitedIsSeen LeftOutIsNoted
