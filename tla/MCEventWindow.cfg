SPECIFICATION WindowSpec
CONSTANTS
  t1 = t1
  t2 = t2
  Threads <- MCThreads
  LastWindow = 3
  MaxCalls = 5
INVARIANTS
  OneEventUnlessOvertaken
CHECK_DEADLOCK FALSE
