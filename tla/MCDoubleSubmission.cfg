SPECIFICATION SubmissionSpec
CONSTANTS
  w1 = w1
  w2 = w2
  Workers <- MCWorkers
  MaxStaged = 2
  MaxOutputRetries = 2
  MaxBatchSize = 1
  MaxOutputs = 2
  Edges <- MCEdges
INVARIANTS
  NoDoubleSubmission
CHECK_DEADLOCK FALSE
