SPECIFICATION Spec
CONSTANTS
  w1 = w1
  w2 = w2
  Jobs = {1, 3}
  Workers = {w1, w2}
  Nobody = Nobody
  Queue = Queue
  NoJob = NoJob
  Priority <- MCPriority
  Requirements <- MCRequirements
  Profile <- MCProfile
  Policy <- MCPolicy
  CounterMax = 3
  AttemptMax = 3
  Backoff = 1
  MaxNow = 2
INVARIANT WithinCapacity
PROPERTIES ImplementsExclusiveJobs SeniorsFirst
