CONSTANTS
  Inputs <- MCInputs
  Databases <- MCDatabases
  CVE <- MCCVE
  BatchSize = 2
  DefaultBatchSize = 1000
  Concurrency = 2
  DefaultConcurrency = 10
SPECIFICATION ClientSpec
INVARIANT ReportsEveryListed
