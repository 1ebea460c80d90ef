CONSTANTS
  Sizes = {1, 2, 4}
  Concurrency = 3
  DefaultConcurrency = 10
SPECIFICATION Spec
INVARIANTS
  TypeOK
  FetchedOnce
  AnswerIsWhatWasFed
  CompleteUnlessEnded
  ReportNeverBlocks
  NoSendOnClosed
  NothingLeftRunning
PROPERTIES
  FirstErrorWins
  CancelReleases
  Returns
  ImplementsAbs
