SPECIFICATION FairPath
CONSTANTS
  Jobs <- MCJobs
  max_records = 2
  max_buffer_bytes = 4
  max_record_bytes = 3
  MaxInFlight = 2
  MaxCrashes = 1
  Limit = 2
  Kept = 1
  None = None
  MaxBreaks = 1
INVARIANTS LogIsExact ReplayIsExact LostIsDeleted
PROPERTY ReachesTheViewer
