CONSTANTS
  Args <- SomeArgs
  MinMemory = 4
  EnvelopeSize = 3
  Latencies <- SomeLatencies
  MaxValue = 40
  FirstValue = 2
  NumBuckets = 3
SPECIFICATION FairSpec
INVARIANTS
  EndsAfterAll
  RequestsAccounted
  HistogramComplete
  BucketsCumulative
PROPERTIES
  BenchmarkEnds
  ExitCompletes
CHECK_DEADLOCK FALSE
