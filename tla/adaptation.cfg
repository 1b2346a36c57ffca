SPECIFICATION SafeSpec
CONSTANTS
  Amounts <- UpAndDown
  Times = {1, 2}
  Gaps <- SomeGaps
  FirstGap = 200000
  TargetPhi = 105
  InitialCL <- Default
  MaxHistory = 2
  MaxOps = 4
  MaxAtOnce = 2
INVARIANTS TypeOK TimelinesMeet RegretLiesBetween
PROPERTIES RegretNeedsLateness
