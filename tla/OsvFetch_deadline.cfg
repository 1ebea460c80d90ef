CONSTANTS
  Sizes = {3}
  Concurrency = 0
  DefaultConcurrency = 2
SPECIFICATION Spec
INVARIANT ReturnsEveryRecord
