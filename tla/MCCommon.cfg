SPECIFICATION FairSpecAll
CONSTANTS
  NrThreads = 3
  NrWaits = 3
  CtrMax = 3
  Jiffies = {1, 3, 7, 8, 9, 31, 64, 100, 101}
  FirstGuess = 8
  Precision = 8
  MaxInterrupts = 2
  Interruptions = {1, 20, 70}
  Calibrates = TRUE
  HZ = 8
  WordSize = 4096
  PerSecond = 100
  NrRounds = 3
  MaxNrThreads = 3
  Durations = {1, 4}
  MaxFailures = 2
INVARIANTS
  BarrierTypeOK
  Separation
  PartsTypeOK
  NeverTooLong
  DelayAsAsked
  SamplesCollected
  ColumnsFit
  ReportsOfRound
PROPERTIES
  ImplementsFairBarrier
  DelaysCalibrated
