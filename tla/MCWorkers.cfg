\* The workers, from Start to Stop
SPECIFICATION FairSpec
CONSTANTS
  WorkerThreads = {w1, w2}
  Batch = 2
  MaxCompletions <- MCMaxCompletions
INVARIANTS
  HandledInOrder
  WakeupNotLost
  QueuesOutliveUsers
PROPERTIES
  NoneForgotten
  StopEnds
\* the server has stopped, or never started
CHECK_DEADLOCK FALSE
