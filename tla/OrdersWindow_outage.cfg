\* A run may be resumed long after the end of its window.
SPECIFICATION Spec
CONSTANTS
  Created = 1
  Day = 2
  ChunkDays = 2
  Overlap = 2
  SafetyNet = 3
  BackfillDays = 0
  MaxRunTime = 8
  MaxPages = 2
  MaxTime = 14
INVARIANT NoGap
