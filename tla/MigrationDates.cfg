SPECIFICATION Spec
CONSTANTS
  Schemas <- EarlierSchemas
  MaxRecords = 2
  Day = 3
  ReportAt = 1
  MaxRun = 1
  MaxWrite = 1
  Jumps <- BackAndAhead
  MaxJumps = 0
  Requests = 1
  MaxTime = 2
INVARIANT
  NewRecordsDated
