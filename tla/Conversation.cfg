\* Two files, two paths, up to three runs; a window of three messages.
CONSTANTS
  f1 = f1 f2 = f2 d1 = d1 d2 = d2
  File = {f1, f2}
  Path = {d1, d2}
  Contents <- MCContents
  Kinds <- MCKinds
  Tasks <- MCTasks
  FindLimit = 3
  Header = 1
  MaxRead = 8
  Label = 1
  Again = 1
  WindowLimit = 3
  MaxBacktrack = 1
  RetainLast = 2
  MaxSize = 12
  FoldAbove = 4
  CutAbove = 8
  Folded = 1
  Cut = 6
SPECIFICATION Spec
CHECK_DEADLOCK FALSE
INVARIANTS RefusedMeansShown CompleteIsRead RequestIsLegal ClosesOnce StateStaysValid
