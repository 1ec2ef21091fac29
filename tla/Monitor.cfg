CONSTANTS
  RingSize = 1
  ChanSize = 1
  Courses <- MCCourses
SPECIFICATION Spec
CHECK_DEADLOCK FALSE
INVARIANTS ReadsTheLog NothingMissed
PROPERTY NoStaleReport
