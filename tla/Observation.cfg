\* A queue of one event, a stream that is full after three ordinary lines, one
\* failure of the directory.
CONSTANTS
  QueueSize = 1
  UrgentSize = 3
  MaxBytes = 9
  ReserveBytes = 6
  MaxGaps = 1
  MaxOrdinary = 2
  MaxFaults = 1
SPECIFICATION FairSpec
CHECK_DEADLOCK FALSE
INVARIANTS FileInOrder LossesDeclared EndKept QualityIsTrue
PROPERTY ViewSettles
