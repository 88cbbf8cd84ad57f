\* Runs finish in time or late.
SPECIFICATION Spec
CONSTANTS
  Created = 1
  Day = 2
  ChunkDays = 2
  Overlap = 2
  SafetyNet = 3
  BackfillDays = 5
  MaxRunTime = 5
  MaxPages = 2
  MaxTime = 14
INVARIANTS TypeOK OnlyLateRunsLeaveGaps WindowIsLegal
